---- MODULE Spec2Model ----
(***************************************************************************)
(* Verilator V3Coverage.cpp: the CoverageVisitor as a state machine.       *)
(*                                                                         *)
(* The visitor is a recursive descent over the netlist.  Here every        *)
(* handler is one action (a handler that recurses is split at its          *)
(* recursive calls into an Enter and an Exit action, visit(AstIf) into     *)
(* Enter / Else / Exit), the C++ call stack is the variable stack, and the *)
(* syntax tree is the input: each Enter or Visit action reads the next     *)
(* child of the node on top of the stack, drawn with \E.                   *)
(* Strings are sequences of characters (a fixed prefix is one element).    *)
(***************************************************************************)
EXTENDS Integers, Sequences, FiniteSets, TLC

VARIABLES
    opt,            \* v3Global.opt: the pass's configuration, fixed at construction
    m_state,        \* CheckState m_state
    m_nextHandle,   \* int m_nextHandle
    m_modp,         \* AstNodeModule* m_modp (Null or the module node)
    m_inToggleOff,  \* bool m_inToggleOff
    m_varnames,     \* std::unordered_map<std::string, uint32_t> m_varnames
    m_beginHier,    \* string m_beginHier
    m_handleLines,  \* std::unordered_map<int, LinenoSet> m_handleLines
    stack,          \* the visitor's call stack: one frame per handler in progress
    pc,             \* "run" while the constructor iterates, "done" after it,
                    \* "fatal" after v3fatalSrc
    ev,             \* what the last handler did (inserted nodes, states it saw)
    tree,           \* what the tree holds that no handler has touched
    issued,         \* history: the trace names requested, per top-level module
    offHandles,     \* history: the handles of the scopes a $stop or pragma disabled
    addedVars,      \* the variables added to the modules (m_modp->addStmtsp of an
                    \* AstVar), each with the number of its top-level module
    nread           \* input nodes read so far

vars == <<opt, m_state, m_nextHandle, m_modp, m_inToggleOff, m_varnames,
          m_beginHier, m_handleLines, stack, pc, ev, tree, issued, offHandles,
          addedVars, nread>>

-----------------------------------------------------------------------------
(* Bounds of the model *)

\* input nodes read by one pass over all kinds of statement
MaxNodes == 4
\* input nodes read by one pass over case arms
MaxCaseNodes == 8
\* input nodes read by one pass over conditionals
MaxIfNodes == 8
\* source lines 1..MaxLine of the nodes in the pass over line tracking
MaxLine == 1
\* input nodes read by one pass over line tracking
MaxTrackNodes == 4
\* largest line number in the sets given to the range renderer
MaxLineNo == 12
\* width in bits of the widest scalar, and members/elements per composite type
MaxWidth == 2
\* nodes of the input tree in the pass over variable declarations
MaxToggleNodes == 4
\* nodes of the input tree in the pass over one variable per module
MaxWidthNodes == 2
\* input nodes read by one pass over scopes visited after a $stop
MaxOffNodes == 5

Null == [kind |-> "Null"]

-----------------------------------------------------------------------------
(* Strings *)

Digit(d) ==
    CASE d = 0 -> "0" [] d = 1 -> "1" [] d = 2 -> "2" [] d = 3 -> "3" [] d = 4 -> "4"
      [] d = 5 -> "5" [] d = 6 -> "6" [] d = 7 -> "7" [] d = 8 -> "8" [] d = 9 -> "9"

RECURSIVE cvtToStr(_)
cvtToStr(n) ==
    IF n < 0 THEN <<"-">> \o cvtToStr(-n)
    ELSE IF n < 10 THEN <<Digit(n)>>
    ELSE cvtToStr(n \div 10) \o <<Digit(n % 10)>>

\* iteration order of std::set<int>: ascending
RECURSIVE LinenoSetOrder(_)
LinenoSetOrder(S) ==
    IF S = {} THEN <<>>
    ELSE LET m == CHOOSE x \in S : \A y \in S : x <= y
         IN <<m>> \o LinenoSetOrder(S \ {m})

-----------------------------------------------------------------------------
(* CheckState and the line tracker *)

CheckStateInit == [m_on |-> FALSE, m_inModOff |-> FALSE, m_handle |-> 0, m_nodep |-> Null]

lineCoverageOn(state, nodep) ==
    state.m_on /\ ~state.m_inModOff /\ nodep.fl.coverageOn /\ opt.coverageLine

\* the handle taken before the counter is advanced
createHandleStale(state, nh, nodep) ==
    [state EXCEPT !.m_on = TRUE, !.m_handle = nh, !.m_nodep = nodep]

\* the handle created without enabling the scope
createHandleKeepsOff(state, nh, nodep) ==
    [state EXCEPT !.m_handle = nh + 1, !.m_nodep = nodep]

\* the handle created with the module's suppression cleared
createHandleClearsModOff(state, nh, nodep) ==
    [state EXCEPT !.m_on = TRUE, !.m_inModOff = FALSE, !.m_handle = nh + 1,
                  !.m_nodep = nodep]

\* createHandle's effect on m_state; m_nextHandle becomes nh + 1
createHandle(state, nh, nodep) ==
    [state EXCEPT !.m_on = TRUE, !.m_handle = nh + 1, !.m_nodep = nodep]

\* operator[] of m_handleLines: a missing entry reads as the empty set
HandleLines(hl, h) == IF h \in DOMAIN hl THEN hl[h] ELSE {}

PutLines(hl, h, S) == [x \in DOMAIN hl \cup {h} |-> IF x = h THEN S ELSE hl[x]]

\* the lines tracked whatever file the node is in
lineTrackAnyFile(state, hl, nodep) ==
    IF lineCoverageOn(state, nodep)
    THEN PutLines(hl, state.m_handle,
                  HandleLines(hl, state.m_handle)
                      \cup (nodep.fl.firstLineno .. nodep.fl.lastLineno))
    ELSE hl

\* lineTrack: the new m_handleLines
lineTrack(state, hl, nodep) ==
    IF lineCoverageOn(state, nodep) /\ state.m_nodep.fl.filenameno = nodep.fl.filenameno
    THEN PutLines(hl, state.m_handle,
                  HandleLines(hl, state.m_handle)
                      \cup (nodep.fl.firstLineno .. nodep.fl.lastLineno))
    ELSE hl

\* every run rendered as a range, also a run of one line
linesFirstLastRange(first, last) ==
    IF first # 0 /\ last # 0 THEN cvtToStr(first) \o <<"-">> \o cvtToStr(last) ELSE <<>>

linesFirstLast(first, last) ==
    IF first # 0 /\ first = last THEN cvtToStr(first)
    ELSE IF first # 0 /\ last # 0 THEN cvtToStr(first) \o <<"-">> \o cvtToStr(last)
    ELSE <<>>

Comma(out) == IF out # <<>> THEN out \o <<",">> ELSE out

RECURSIVE linesCovLoop(_, _, _, _)
linesCovLoop(lines, first, last, out) ==
    IF lines = <<>>
    THEN IF first # 0 THEN Comma(out) \o linesFirstLast(first, last) ELSE out
    ELSE LET linen == Head(lines) IN
         IF first = 0 THEN linesCovLoop(Tail(lines), linen, linen, out)
         ELSE IF linen = last + 1 THEN linesCovLoop(Tail(lines), first, last + 1, out)
         ELSE linesCovLoop(Tail(lines), linen, linen,
                           Comma(out) \o linesFirstLast(first, last))

\* linesCov: the rendered string
linesCov(state, hl) == linesCovLoop(LinenoSetOrder(HandleLines(hl, state.m_handle)), 0, 0, <<>>)

\* linesCov reads m_handleLines[state.m_handle], which creates a missing entry
linesCovTouch(state, hl) == PutLines(hl, state.m_handle, HandleLines(hl, state.m_handle))

-----------------------------------------------------------------------------
(* Input nodes: source locations and the statement-list grammar *)

\* FileLine of an input node
FileLine(file, line, last, on) ==
    [filenameno |-> file, filebasenameNoExt |-> IF file = 1 THEN "t" ELSE "inc",
     lineno |-> line, firstLineno |-> line, lastLineno |-> last, coverageOn |-> on]

Frame(kind, node) ==
    [kind |-> kind, node |-> node,
     list |-> "stmts",       \* the child list being iterated
     n |-> 0,                \* children read from it
     kept |-> 0,             \* children of it still linked
     firstIf |-> FALSE,      \* its first child is an AstIf
     saved |-> Null,         \* VL_RESTORER(m_state) / lastState
     savedModp |-> Null,     \* VL_RESTORER(m_modp)
     savedToggleOff |-> FALSE,
     savedHier |-> <<>>,
     user1 |-> FALSE, elsif |-> FALSE, ifState |-> Null, thenKept |-> 0,
     stopped |-> FALSE,      \* history: a $stop or scope-off pragma is among its children
     afterOffArm |-> FALSE]  \* history: entered right after a case arm left without increment

Top == stack[Len(stack)]

Pop == SubSeq(stack, 1, Len(stack) - 1)

\* the frame after one more child of the current list was read
ReadChild(f, kind, linked) ==
    [f EXCEPT !.n = @ + 1,
              !.kept = IF linked THEN @ + 1 ELSE @,
              !.firstIf = IF f.n = 0 THEN kind = "If" ELSE @,
              !.stopped = @ \/ kind = "Stop" \/ (kind = "Pragma" /\ ~linked)]

\* the stack after the top frame read a child that needs no frame of its own
Read(kind, linked) == [stack EXCEPT ![Len(stack)] = ReadChild(@, kind, linked)]

\* may the node on top of the stack have a further child of this kind?
CanAdd(f, kind) ==
    CASE f.kind = "Netlist" -> kind = "Module"
      [] f.kind = "If" /\ f.list = "thens" -> f.node.hasThen /\ kind # "Module"
      [] f.kind = "If" /\ f.list = "elses" ->
            /\ kind # "Module"
            /\ CASE f.node.elseShape = "none" -> FALSE
                 [] f.node.elseShape = "if" -> f.n = 0 /\ kind = "If"
                 [] OTHER -> TRUE
      [] OTHER -> kind = "Module" => f.kind = "Module"

\* children the current and the later child lists of a node still lack
Owed(f) ==
    CASE f.kind = "If" /\ f.list = "thens" ->
            (IF f.node.hasThen /\ f.n = 0 THEN 1 ELSE 0)
            + (IF f.node.elseShape # "none" THEN 1 ELSE 0)
      [] f.kind = "If" /\ f.list = "elses" ->
            CASE f.node.elseShape = "none" -> 0
              [] f.node.elseShape = "if" -> 1 - f.n
              [] OTHER -> IF f.n = 0 \/ (f.n = 1 /\ f.firstIf) THEN 1 ELSE 0
      [] f.kind = "Node" -> IF f.n = 0 THEN 1 ELSE 0
      [] OTHER -> 0

\* may the current child list of the node on top of the stack end here?
CanEnd(f) ==
    CASE f.kind = "If" /\ f.list = "thens" -> (f.n >= 1) = f.node.hasThen
      [] f.kind = "If" /\ f.list = "elses" -> Owed(f) = 0
      [] f.kind = "Node" -> Owed(f) = 0
      [] OTHER -> TRUE

RECURSIVE OwedAll(_)
OwedAll(st) == IF st = <<>> THEN 0 ELSE Owed(Head(st)) + OwedAll(Tail(st))

Reading(kind) == pc = "run" /\ stack # <<>> /\ CanAdd(Top, kind)

\* one more node is read, and the nodes the tree still needs fit into max
Fits(max) == nread' = nread + 1 /\ nread' + OwedAll(stack') <= max

Leaving(kind) == pc = "run" /\ stack # <<>> /\ Top.kind = kind /\ CanEnd(Top)

-----------------------------------------------------------------------------
(* Coverage declarations, increments and trace names *)

VarCount(varnames, name) == IF name \in DOMAIN varnames THEN varnames[name] ELSE 0

traceBaseName(nodep, type) ==
    <<"vlCoverageLineTrace_", nodep.fl.filebasenameNoExt, "__">>
        \o cvtToStr(nodep.fl.lineno) \o <<"_", type>>

\* traceNameForLine: the name returned
traceNameForLine(varnames, nodep, type) ==
    LET name == traceBaseName(nodep, type)
        suffix == VarCount(varnames, name)
    IN IF suffix # 0 THEN name \o <<"_">> \o cvtToStr(suffix) ELSE name

\* traceNameForLine: m_varnames after the call (m_varnames[name]++)
traceNameCount(varnames, nodep, type) ==
    LET name == traceBaseName(nodep, type)
    IN [x \in DOMAIN varnames \cup {name} |->
            IF x = name THEN VarCount(varnames, name) + 1 ELSE varnames[x]]

NameSet(names) == {names[i] : i \in DOMAIN names}

\* the trace names requested since the pass entered the current top-level module
IssuedHere == IF issued = <<>> THEN {} ELSE issued[Len(issued)]

\* issued after the names were requested
Issue(names) == [issued EXCEPT ![Len(issued)] = @ \cup NameSet(names)]

\* the declaration created without being added to the module
newCoverIncOrphan(modp, fl, hier, page_prefix, comment, linescov, offset, trace_var_name) ==
    [kind |-> "CoverInc", fl |-> fl,
     declp |-> [kind |-> "CoverDecl", fl |-> fl, page |-> <<page_prefix, "/", modp.name>>,
                comment |-> comment, linescov |-> linescov, offset |-> offset,
                hier |-> hier, modp |-> Null],
     traceVar |-> <<>>]

\* newCoverInc: the AstCoverInc, its AstCoverDecl (added to m_modp) and, with
\* --trace-coverage, the trace variable (added to m_modp) it also counts in
newCoverInc(modp, fl, hier, page_prefix, comment, linescov, offset, trace_var_name) ==
    [kind |-> "CoverInc", fl |-> fl,
     declp |-> [kind |-> "CoverDecl", fl |-> fl, page |-> <<page_prefix, "/", modp.name>>,
                comment |-> comment, linescov |-> linescov, offset |-> offset,
                hier |-> hier, modp |-> modp],
     traceVar |-> IF trace_var_name # <<>> /\ opt.traceCoverage /\ ~modp.isClass
                  THEN trace_var_name ELSE <<>>]

\* an increment spliced in as the last node of a child list
Added(inc, list, kept) == [inc |-> inc, list |-> list, pos |-> kept + 1]

\* a variable added to the module: its name and, of a shadow variable, the name
\* of the variable it shadows
AddedVar(name, of) == [top |-> Len(issued), name |-> name, of |-> of]

RECURSIVE TraceVars(_)
\* the trace variables newCoverInc added to the module with these increments
TraceVars(incs) ==
    IF incs = <<>> THEN <<>>
    ELSE (IF Head(incs).inc.traceVar # <<>>
          THEN <<AddedVar(Head(incs).inc.traceVar, <<>>)>> ELSE <<>>)
         \o TraceVars(Tail(incs))

-----------------------------------------------------------------------------
(* Construction *)

EmptyMap == [x \in {} |-> 0]

Opt(line, toggle, user, trace) ==
    [coverageLine |-> line, coverageToggle |-> toggle, coverageUser |-> user,
     traceCoverage |-> trace, coverageUnderscore |-> FALSE, coverageMaxWidth |-> 256]

\* --coverage --trace-coverage; the same without line coverage; line coverage alone
OptsAll ==
    {Opt(TRUE, TRUE, TRUE, TRUE), Opt(FALSE, TRUE, TRUE, FALSE),
     Opt(TRUE, FALSE, FALSE, FALSE)}

\* CoverageVisitor's members as constructed, before iterateChildren(rootp)
Construct(opts) ==
    /\ opt \in opts
    /\ m_state = CheckStateInit
    /\ m_nextHandle = 0
    /\ m_modp = Null
    /\ m_inToggleOff = FALSE
    /\ m_varnames = EmptyMap
    /\ m_beginHier = <<>>
    /\ m_handleLines = EmptyMap
    /\ stack = <<Frame("Netlist", [kind |-> "Netlist"])>>
    /\ pc = "run"
    /\ ev = [kind |-> "Construct"]
    /\ tree = {}
    /\ issued = <<>>
    /\ offHandles = {}
    /\ addedVars = <<>>
    /\ nread = 0

\* the constructor's iterateChildren(rootp) returns
Finish ==
    /\ Leaving("Netlist")
    /\ pc' = "done"
    /\ stack' = <<>>
    /\ ev' = [kind |-> "Finish"]
    /\ UNCHANGED <<opt, m_state, m_nextHandle, m_modp, m_inToggleOff, m_varnames,
                   m_beginHier, m_handleLines, tree, issued, offHandles, addedVars, nread>>

-----------------------------------------------------------------------------
(* visit(AstNodeModule) *)

ModuleKinds == {"top", "module", "class"}

ModuleNode(fl, what) ==
    [kind |-> "Module", fl |-> fl, isTop |-> what = "top", isClass |-> what = "class",
     name |-> CASE what = "top" -> "$root" [] what = "class" -> "Cls" [] OTHER -> "t"]

\* the tables cleared on entering any module, nested or not
ClearTablesAlways(origModp) == TRUE

\* must the tables be cleared on entering a module: no module is being visited
ClearTables(origModp) == origModp = Null

EnterModule(whats, fls, max) ==
    /\ Reading("Module")
    /\ \E fl \in fls,
          what \in whats \cap (IF Top.kind = "Netlist" THEN {"top", "module"}
                                ELSE {"module", "class"}) :
          LET nodep == ModuleNode(fl, what)
              origModp == m_modp
          IN /\ m_state' = [createHandle(m_state, m_nextHandle, nodep)
                               EXCEPT !.m_inModOff = nodep.isTop]
             /\ m_nextHandle' = m_nextHandle + 1
             /\ m_modp' = nodep
             /\ m_varnames' = IF ClearTables(origModp) THEN EmptyMap ELSE m_varnames
             /\ m_handleLines' = IF ClearTables(origModp) THEN EmptyMap ELSE m_handleLines
             /\ stack' = Append(Read("Module", TRUE),
                                [Frame("Module", nodep) EXCEPT !.saved = m_state,
                                                               !.savedModp = origModp])
             /\ issued' = IF Top.kind = "Netlist" THEN Append(issued, {}) ELSE issued
             /\ ev' = [kind |-> "EnterModule", node |-> nodep, entry |-> m_state,
                       nested |-> Top.kind # "Netlist"]
    /\ UNCHANGED <<opt, m_inToggleOff, m_beginHier, pc, tree, offHandles, addedVars>>
    /\ Fits(max)

ExitModule ==
    /\ Leaving("Module")
    /\ m_modp' = Top.savedModp
    /\ m_state' = Top.saved
    /\ stack' = Pop
    /\ ev' = [kind |-> "ExitModule", node |-> Top.node, entry |-> Top.saved,
              incs |-> <<>>]
    /\ UNCHANGED <<opt, m_nextHandle, m_inToggleOff, m_varnames, m_beginHier,
                   m_handleLines, pc, tree, issued, offHandles, addedVars, nread>>

-----------------------------------------------------------------------------
(* visit(AstNodeProcedure), visit(AstWhile), visit(AstNodeFTask): iterateProcedure *)

ProcedureKinds == {"NodeProcedure", "While", "NodeFTask"}

\* what a subtree no handler enters may hold: a cover block without an increment,
\* a scope-off pragma
Unvisited == {"Cover", "PragmaOff"}

EnterProcedure(types, fls, max) ==
    /\ Reading("Procedure")
    /\ \E fl \in fls, type \in types :
          LET nodep == [kind |-> "Procedure", type |-> type, fl |-> fl, dpiImport |-> FALSE]
          IN /\ m_inToggleOff' = TRUE
             /\ m_state' = createHandle(m_state, m_nextHandle, nodep)
             /\ m_nextHandle' = m_nextHandle + 1
             /\ stack' = Append(Read("Procedure", TRUE),
                                [Frame("Procedure", nodep)
                                    EXCEPT !.saved = m_state,
                                           !.savedToggleOff = m_inToggleOff])
             /\ ev' = [kind |-> "EnterProcedure", node |-> nodep, entry |-> m_state]
    /\ UNCHANGED <<opt, m_modp, m_varnames, m_beginHier, m_handleLines, pc, tree,
                   issued, offHandles, addedVars>>
    /\ Fits(max)

\* visit(AstNodeFTask) of a DPI import: nothing is done, its children (the
\* arguments) are left alone
SkipFTask(below, fls, max) ==
    /\ Reading("Procedure")
    /\ \E fl \in fls, body \in {{k} : k \in below} :
          /\ tree' = tree \cup {[kind |-> k, under |-> "NodeFTask"] : k \in body}
          /\ ev' = [kind |-> "SkipFTask",
                    node |-> [kind |-> "Procedure", type |-> "NodeFTask", fl |-> fl,
                              dpiImport |-> TRUE],
                    entry |-> m_state, incs |-> <<>>, kept |-> [stmts |-> 0],
                    below |-> body, handles |-> m_nextHandle]
    /\ stack' = Read("Procedure", TRUE)
    /\ UNCHANGED <<opt, m_state, m_nextHandle, m_modp, m_inToggleOff, m_varnames,
                   m_beginHier, m_handleLines, pc, issued, offHandles, addedVars>>
    /\ Fits(max)

\* m_inToggleOff left as the children left it
RestoreToggleOffMissing(saved, current) == current

\* VL_RESTORER(m_inToggleOff): the value the flag had when the visit began
RestoreToggleOff(saved, current) == saved

\* the block increment added whatever the children did to the scope
ProcedureGuardAlways(state, nodep) == TRUE

\* the guard of the block increment in iterateProcedure
ProcedureGuard(state, nodep) == lineCoverageOn(state, nodep)

ExitProcedure ==
    /\ Leaving("Procedure")
    /\ LET nodep == Top.node
           on == ProcedureGuard(m_state, nodep)
           hl == lineTrack(m_state, m_handleLines, nodep)
           name == traceNameForLine(m_varnames, nodep, "block")
           newp == newCoverInc(m_modp, nodep.fl, <<>>, "v_line", "block",
                               linesCov(m_state, hl), 0, name)
       IN /\ m_handleLines' = IF on THEN linesCovTouch(m_state, hl) ELSE m_handleLines
          /\ m_varnames' = IF on THEN traceNameCount(m_varnames, nodep, "block")
                           ELSE m_varnames
          /\ issued' = IF on THEN Issue(<<name>>) ELSE issued
          /\ ev' = [kind |-> "ExitProcedure", node |-> nodep, entry |-> Top.saved,
                    exit |-> m_state, names |-> IF on THEN <<name>> ELSE <<>>,
                    before |-> IssuedHere,
                    kept |-> [stmts |-> Top.kept],
                    incs |-> IF on THEN <<Added(newp, "stmts", Top.kept)>> ELSE <<>>]
          /\ addedVars' = addedVars
                \o TraceVars(IF on THEN <<Added(newp, "stmts", Top.kept)>> ELSE <<>>)
    /\ m_state' = Top.saved
    /\ m_inToggleOff' = RestoreToggleOff(Top.savedToggleOff, m_inToggleOff)
    /\ stack' = Pop
    /\ UNCHANGED <<opt, m_nextHandle, m_modp, m_beginHier, pc, tree, nread, offHandles>>

-----------------------------------------------------------------------------
(* visit(AstIf) *)

\* an increment visit(AstIf) decides to create
Point(list, page, comment, state, offset) ==
    [list |-> list, page |-> page, comment |-> comment, state |-> state, offset |-> offset]

\* nodep->thensp() && VN_IS(nodep->elsesp(), If) && !nodep->elsesp()->nextp()
IsElsif(nodep) == nodep.hasThen /\ nodep.elseShape = "if"

\* a mutation of first_elsif: the mark is read with the wrong sense
first_elsifMarked(nodep, user1) == user1 /\ IsElsif(nodep)

first_elsif(nodep, user1) == ~user1 /\ IsElsif(nodep)

cont_elsif(nodep, user1) == user1 /\ IsElsif(nodep)

\* a mutation of final_elsif: the end of a chain is not recognised
final_elsifNever(nodep, user1) == FALSE

final_elsif(nodep, user1) == user1 /\ ~IsElsif(nodep) /\ nodep.elseShape # "none"

\* a mutation of IfPoints: branch coverage as soon as one leg is active
IfPointsEitherLeg(nodep, user1, ifState, elseState) ==
    LET ifOn == lineCoverageOn(ifState, nodep)
        elseOn == lineCoverageOn(elseState, nodep)
    IN IF ~(first_elsif(nodep, user1) \/ cont_elsif(nodep, user1)
              \/ final_elsif(nodep, user1)) /\ (ifOn \/ elseOn)
       THEN <<Point("thens", "v_branch", "if", ifState, 0),
              Point("elses", "v_branch", "else", elseState, 1)>>
       ELSE IF first_elsif(nodep, user1) \/ cont_elsif(nodep, user1)
       THEN IF ifOn THEN <<Point("thens", "v_line", "elsif", ifState, 0)>> ELSE <<>>
       ELSE (IF ifOn THEN <<Point("thens", "v_line", "if", ifState, 0)>> ELSE <<>>)
            \o (IF elseOn THEN <<Point("elses", "v_line", "else", elseState, 1)>>
                 ELSE <<>>)

\* a mutation of IfPoints: an absent else-branch taken for a scope that is off
IfPointsAbsentElseOff(nodep, user1, ifState, elseState) ==
    LET ifOn == lineCoverageOn(ifState, nodep)
        elseOn == lineCoverageOn(elseState, nodep) /\ nodep.elseShape # "none"
    IN IF ~(first_elsif(nodep, user1) \/ cont_elsif(nodep, user1)
              \/ final_elsif(nodep, user1)) /\ ifOn /\ elseOn
       THEN <<Point("thens", "v_branch", "if", ifState, 0),
              Point("elses", "v_branch", "else", elseState, 1)>>
       ELSE IF first_elsif(nodep, user1) \/ cont_elsif(nodep, user1)
       THEN IF ifOn THEN <<Point("thens", "v_line", "elsif", ifState, 0)>> ELSE <<>>
       ELSE (IF ifOn THEN <<Point("thens", "v_line", "if", ifState, 0)>> ELSE <<>>)
            \o (IF elseOn THEN <<Point("elses", "v_line", "else", elseState, 1)>>
                 ELSE <<>>)

\* the increments of one conditional, in the order they are created
IfPoints(nodep, user1, ifState, elseState) ==
    LET ifOn == lineCoverageOn(ifState, nodep)
        elseOn == lineCoverageOn(elseState, nodep)
    IN IF ~(first_elsif(nodep, user1) \/ cont_elsif(nodep, user1)
              \/ final_elsif(nodep, user1)) /\ ifOn /\ elseOn
       THEN <<Point("thens", "v_branch", "if", ifState, 0),
              Point("elses", "v_branch", "else", elseState, 1)>>
       ELSE IF first_elsif(nodep, user1) \/ cont_elsif(nodep, user1)
       THEN IF ifOn THEN <<Point("thens", "v_line", "elsif", ifState, 0)>> ELSE <<>>
       ELSE (IF ifOn THEN <<Point("thens", "v_line", "if", ifState, 0)>> ELSE <<>>)
            \o (IF elseOn THEN <<Point("elses", "v_line", "else", elseState, 1)>>
                 ELSE <<>>)

\* newCoverInc(..., linesCov(state, nodep), offset, traceNameForLine(nodep, comment))
\* for each point in turn: the increments, the names and the two tables afterwards
RECURSIVE Splice(_, _, _, _, _, _)
Splice(points, nodep, modp, kept, varnames, hl) ==
    IF points = <<>>
    THEN [incs |-> <<>>, names |-> <<>>, varnames |-> varnames, hl |-> hl]
    ELSE LET p == Head(points)
             name == traceNameForLine(varnames, nodep, p.comment)
             inc == newCoverInc(modp, nodep.fl, <<>>, p.page, p.comment,
                                linesCov(p.state, hl), p.offset, name)
             rest == Splice(Tail(points), nodep, modp, kept,
                            traceNameCount(varnames, nodep, p.comment),
                            linesCovTouch(p.state, hl))
         IN [incs |-> <<Added(inc, p.list, kept[p.list])>> \o rest.incs,
             names |-> <<name>> \o rest.names,
             varnames |-> rest.varnames, hl |-> rest.hl]

IfNode(fl, hasThen, elseShape) ==
    [kind |-> "If", fl |-> fl, hasThen |-> hasThen, elseShape |-> elseShape]

\* user1 of the conditional being read: set by the conditional whose else it is
MarkedByParent == Top.kind = "If" /\ Top.list = "elses" /\ Top.elsif

ElseShapes == {"none", "if", "other"}

\* visit(AstIf) up to iterateAndNextNull(nodep->thensp())
EnterIf(fls, max) ==
    /\ Reading("If")
    /\ m_state.m_on
    /\ \E fl \in fls, hasThen \in BOOLEAN, elseShape \in ElseShapes :
          LET nodep == IfNode(fl, hasThen, elseShape)
              lastState == m_state
          IN /\ m_state' = createHandle(m_state, m_nextHandle, nodep)
             /\ m_nextHandle' = m_nextHandle + 1
             /\ stack' = Append(Read("If", TRUE),
                                [Frame("If", nodep)
                                    EXCEPT !.list = "thens", !.saved = lastState,
                                           !.user1 = MarkedByParent,
                                           !.elsif = IsElsif(nodep)])
             /\ ev' = [kind |-> "EnterIf", node |-> nodep, entry |-> lastState,
                       user1 |-> MarkedByParent]
    /\ UNCHANGED <<opt, m_modp, m_inToggleOff, m_varnames, m_beginHier, m_handleLines,
                   pc, tree, issued, offHandles, addedVars>>
    /\ Fits(max)

\* visit(AstIf) with m_state.m_on false: the conditional and all below it are left alone
SkipIf(below, fls, max) ==
    /\ Reading("If")
    /\ ~m_state.m_on
    /\ \E fl \in fls, body \in {{k} : k \in below} :
          /\ tree' = tree \cup {[kind |-> k, under |-> "If"] : k \in body}
          /\ ev' = [kind |-> "SkipIf", node |-> IfNode(fl, body # {}, "none"),
                    entry |-> m_state, incs |-> <<>>, below |-> body,
                    handles |-> m_nextHandle]
    /\ stack' = Read("If", TRUE)
    /\ UNCHANGED <<opt, m_state, m_nextHandle, m_modp, m_inToggleOff, m_varnames,
                   m_beginHier, m_handleLines, pc, issued, offHandles, addedVars>>
    /\ Fits(max)

\* visit(AstIf) from the return of the then-branch to iterateAndNextNull(nodep->elsesp())
IfElse ==
    /\ Leaving("If")
    /\ Top.list = "thens"
    /\ m_handleLines' = lineTrack(m_state, m_handleLines, Top.node)
    /\ m_state' = createHandle(Top.saved, m_nextHandle, Top.node)
    /\ m_nextHandle' = m_nextHandle + 1
    /\ stack' = [stack EXCEPT ![Len(stack)] =
                    [@ EXCEPT !.list = "elses", !.n = 0, !.kept = 0, !.firstIf = FALSE,
                              !.ifState = m_state, !.thenKept = Top.kept]]
    /\ ev' = [kind |-> "IfElse", node |-> Top.node, entry |-> Top.saved,
              ifState |-> m_state]
    /\ UNCHANGED <<opt, m_modp, m_inToggleOff, m_varnames, m_beginHier, pc, tree,
                   issued, offHandles, addedVars, nread>>

\* one conditional of an else-if chain as visit(AstIf) left it
Link(nodep, ifState, elseState, incs, kept) ==
    [node |-> nodep, ifState |-> ifState, elseState |-> elseState, incs |-> incs,
     kept |-> kept]

\* a mutation of IfRestore: the last m_state = lastState is missing
IfRestoreMissing(lastState, ifState, elseState) ==
    [lastState EXCEPT !.m_on = elseState.m_on, !.m_handle = elseState.m_handle]

\* m_state when visit(AstIf) returns
IfRestore(lastState, ifState, elseState) == lastState

\* visit(AstIf) from the return of the else-branch to its end
ExitIf ==
    /\ Leaving("If")
    /\ Top.list = "elses"
    /\ LET nodep == Top.node
           elseState == m_state
           r == Splice(IfPoints(nodep, Top.user1, Top.ifState, elseState), nodep, m_modp,
                       [thens |-> Top.thenKept, elses |-> Top.kept],
                       m_varnames, m_handleLines)
       IN /\ m_handleLines' = r.hl
          /\ m_varnames' = r.varnames
          /\ issued' = Issue(r.names)
          /\ addedVars' = addedVars \o TraceVars(r.incs)
          /\ m_state' = IfRestore(Top.saved, Top.ifState, elseState)
          /\ ev' = [kind |-> "ExitIf", node |-> nodep, entry |-> Top.saved,
                    user1 |-> Top.user1, ifState |-> Top.ifState,
                    elseState |-> elseState, names |-> r.names, incs |-> r.incs,
                    kept |-> [thens |-> Top.thenKept, elses |-> Top.kept],
                    before |-> IssuedHere,
                    chain |-> <<Link(nodep, Top.ifState, elseState, r.incs,
                                     [thens |-> Top.thenKept, elses |-> Top.kept])>>
                              \o (IF nodep.hasThen /\ nodep.elseShape = "if"
                                  THEN ev.chain ELSE <<>>)]
    /\ stack' = Pop
    /\ UNCHANGED <<opt, m_nextHandle, m_modp, m_inToggleOff, m_beginHier, pc, tree,
                   nread, offHandles>>

-----------------------------------------------------------------------------
(* visit(AstCaseItem) *)

\* the guard of visit(AstCaseItem)
\* every arm entered, whatever the parent scope's state
CaseItemGuardAlways(state, nodep) == TRUE

CaseItemGuard(state, nodep) == lineCoverageOn(state, nodep)

EnterCaseItem(fls, max) ==
    /\ Reading("CaseItem")
    /\ \E fl \in fls :
          LET nodep == [kind |-> "CaseItem", fl |-> fl]
          IN /\ CaseItemGuard(m_state, nodep)
             /\ m_state' = createHandle(m_state, m_nextHandle, nodep)
             /\ m_nextHandle' = m_nextHandle + 1
             /\ stack' = Append(Read("CaseItem", TRUE),
                                [Frame("CaseItem", nodep)
                                    EXCEPT !.saved = m_state,
                                           !.afterOffArm = (ev.kind = "ExitCaseItem"
                                                            /\ ev.incs = <<>>)])
             /\ ev' = [kind |-> "EnterCaseItem", node |-> nodep, entry |-> m_state]
    /\ UNCHANGED <<opt, m_modp, m_inToggleOff, m_varnames, m_beginHier, m_handleLines,
                   pc, tree, issued, offHandles, addedVars>>
    /\ Fits(max)

\* visit(AstCaseItem) with line coverage off for the arm: the arm is left alone
SkipCaseItem(below, fls, max) ==
    /\ Reading("CaseItem")
    /\ \E fl \in fls, body \in {{k} : k \in below} :
          LET nodep == [kind |-> "CaseItem", fl |-> fl]
          IN /\ ~CaseItemGuard(m_state, nodep)
             /\ tree' = tree \cup {[kind |-> k, under |-> "CaseItem"] : k \in body}
             /\ ev' = [kind |-> "SkipCaseItem", node |-> nodep, entry |-> m_state,
                       incs |-> <<>>, below |-> body, handles |-> m_nextHandle]
    /\ stack' = Read("CaseItem", TRUE)
    /\ UNCHANGED <<opt, m_state, m_nextHandle, m_modp, m_inToggleOff, m_varnames,
                   m_beginHier, m_handleLines, pc, issued, offHandles, addedVars>>
    /\ Fits(max)

ExitCaseItem ==
    /\ Leaving("CaseItem")
    /\ LET nodep == Top.node
           on == lineCoverageOn(m_state, nodep)
           r == Splice(IF on THEN <<Point("stmts", "v_line", "case", m_state, 0)>>
                       ELSE <<>>,
                       nodep, m_modp, [stmts |-> Top.kept], m_varnames,
                       lineTrack(m_state, m_handleLines, nodep))
       IN /\ m_handleLines' = r.hl
          /\ m_varnames' = r.varnames
          /\ issued' = Issue(r.names)
          /\ addedVars' = addedVars \o TraceVars(r.incs)
          /\ ev' = [kind |-> "ExitCaseItem", node |-> nodep, entry |-> Top.saved,
                    exit |-> m_state, names |-> r.names, incs |-> r.incs,
                    before |-> IssuedHere, kept |-> [stmts |-> Top.kept],
                    stopped |-> Top.stopped, afterOffArm |-> Top.afterOffArm]
    /\ m_state' = Top.saved
    /\ stack' = Pop
    /\ UNCHANGED <<opt, m_nextHandle, m_modp, m_inToggleOff, m_beginHier, pc, tree,
                   nread, offHandles>>

-----------------------------------------------------------------------------
(* visit(AstCover) *)

EnterCover(fls, max) ==
    /\ Reading("Cover")
    /\ m_modp # Null
    /\ \E fl \in fls, coverincsp \in BOOLEAN :
          LET nodep == [kind |-> "Cover", fl |-> fl, coverincsp |-> coverincsp]
          IN /\ m_state' = createHandle([m_state EXCEPT !.m_on = TRUE], m_nextHandle, nodep)
             /\ m_nextHandle' = m_nextHandle + 1
             /\ stack' = Append(Read("Cover", TRUE),
                                [Frame("Cover", nodep) EXCEPT !.saved = m_state])
             /\ ev' = [kind |-> "EnterCover", node |-> nodep, entry |-> m_state]
    /\ UNCHANGED <<opt, m_modp, m_inToggleOff, m_varnames, m_beginHier, m_handleLines,
                   pc, tree, issued, offHandles, addedVars>>
    /\ Fits(max)

ExitCover ==
    /\ Leaving("Cover")
    /\ LET nodep == Top.node
           add == ~nodep.coverincsp /\ opt.coverageUser
           hl == lineTrack(m_state, m_handleLines, nodep)
           newp == newCoverInc(m_modp, nodep.fl, m_beginHier, "v_user", "cover",
                               linesCov(m_state, hl), 0,
                               m_beginHier \o <<"_vlCoverageUserTrace">>)
       IN /\ m_handleLines' = IF add THEN linesCovTouch(m_state, hl) ELSE m_handleLines
          /\ ev' = [kind |-> "ExitCover", node |-> nodep, entry |-> Top.saved,
                    exit |-> m_state,
                    kept |-> [coverincs |-> 0],
                    incs |-> IF add THEN <<Added(newp, "coverincs", 0)>> ELSE <<>>]
          /\ addedVars' = addedVars
                \o TraceVars(IF add THEN <<Added(newp, "coverincs", 0)>> ELSE <<>>)
    /\ m_state' = Top.saved
    /\ stack' = Pop
    /\ UNCHANGED <<opt, m_nextHandle, m_modp, m_inToggleOff, m_varnames, m_beginHier,
                   pc, tree, issued, offHandles, nread>>

-----------------------------------------------------------------------------
(* visit(AstStop), visit(AstPragma) *)

VisitStop(fls, max) ==
    /\ Reading("Stop")
    /\ m_modp # Null
    /\ \E fl \in fls :
          ev' = [kind |-> "VisitStop", node |-> [kind |-> "Stop", fl |-> fl],
                 entry |-> m_state, incs |-> <<>>]
    /\ m_state' = [m_state EXCEPT !.m_on = FALSE]
    /\ offHandles' = offHandles \cup {m_state.m_handle}
    /\ stack' = Read("Stop", TRUE)
    /\ UNCHANGED <<addedVars, opt, m_nextHandle, m_modp, m_inToggleOff, m_varnames, m_beginHier,
                   m_handleLines, pc, tree, issued>>
    /\ Fits(max)

PragmaTypes == {"COVERAGE_BLOCK_OFF", "OTHER"}

VisitPragma(fls, max) ==
    /\ Reading("Pragma")
    /\ m_modp # Null
    /\ \E fl \in fls, pragType \in PragmaTypes :
          LET nodep == [kind |-> "Pragma", fl |-> fl, pragType |-> pragType]
              off == pragType = "COVERAGE_BLOCK_OFF"
          IN /\ m_state' = IF off THEN [m_state EXCEPT !.m_on = FALSE] ELSE m_state
             /\ m_handleLines' = IF off THEN m_handleLines
                                 ELSE lineTrack(m_state, m_handleLines, nodep)
             /\ offHandles' = IF off THEN offHandles \cup {m_state.m_handle}
                                ELSE offHandles
             /\ stack' = Read("Pragma", ~off)
             /\ ev' = [kind |-> "VisitPragma", node |-> nodep, entry |-> m_state,
                       unlinked |-> off, incs |-> <<>>]
    /\ UNCHANGED <<addedVars, opt, m_nextHandle, m_modp, m_inToggleOff, m_varnames, m_beginHier,
                   pc, tree, issued>>
    /\ Fits(max)

-----------------------------------------------------------------------------
(* visit(AstBegin) and the default visit(AstNode) *)

BeginNames == {"", "g", "h"}

\* the name of the block put before the path
beginHierInnerFirst(hier, name) ==
    IF name # "" THEN <<name>> \o (IF hier # <<>> THEN <<".">> ELSE <<>>) \o hier ELSE hier

\* m_beginHier inside a block of this name
beginHier(hier, name) ==
    IF name # "" THEN hier \o (IF hier # <<>> THEN <<".">> ELSE <<>>) \o <<name>> ELSE hier

EnterBegin(fls, max) ==
    /\ Reading("Begin")
    /\ m_modp # Null
    /\ \E fl \in fls, name \in BeginNames :
          LET nodep == [kind |-> "Begin", fl |-> fl, name |-> name]
          IN /\ m_beginHier' = beginHier(m_beginHier, name)
             /\ stack' = Append(Read("Begin", TRUE),
                                [Frame("Begin", nodep)
                                    EXCEPT !.savedHier = m_beginHier,
                                           !.savedToggleOff = m_inToggleOff])
             /\ ev' = [kind |-> "EnterBegin", node |-> nodep, entry |-> m_state]
    /\ m_inToggleOff' = TRUE
    /\ UNCHANGED <<opt, m_state, m_nextHandle, m_modp, m_varnames, m_handleLines, pc,
                   tree, issued, offHandles, addedVars>>
    /\ Fits(max)

ExitBegin ==
    /\ Leaving("Begin")
    /\ m_handleLines' = lineTrack(m_state, m_handleLines, Top.node)
    /\ m_beginHier' = Top.savedHier
    /\ m_inToggleOff' = RestoreToggleOff(Top.savedToggleOff, m_inToggleOff)
    /\ stack' = Pop
    /\ ev' = [kind |-> "ExitBegin", node |-> Top.node, exit |-> m_state, incs |-> <<>>]
    /\ UNCHANGED <<opt, m_state, m_nextHandle, m_modp, m_varnames, pc, tree, issued,
                   offHandles, addedVars, nread>>

\* visit(AstNode) of a node without children (an assignment, a display, ...)
VisitStmt(fls, max) ==
    /\ Reading("Stmt")
    /\ m_modp # Null
    /\ \E fl \in fls :
          LET nodep == [kind |-> "Stmt", fl |-> fl]
          IN /\ m_handleLines' = lineTrack(m_state, m_handleLines, nodep)
             /\ ev' = [kind |-> "VisitStmt", node |-> nodep, entry |-> m_state,
                       incs |-> <<>>]
    /\ stack' = Read("Stmt", TRUE)
    /\ UNCHANGED <<opt, m_state, m_nextHandle, m_modp, m_inToggleOff, m_varnames,
                   m_beginHier, pc, tree, issued, offHandles, addedVars>>
    /\ Fits(max)

\* visit(AstNode) of a node with children (a case statement, a block, ...)
EnterNode(fls, max) ==
    /\ Reading("Node")
    /\ m_modp # Null
    /\ \E fl \in fls :
          LET nodep == [kind |-> "Node", fl |-> fl]
          IN /\ stack' = Append(Read("Node", TRUE), Frame("Node", nodep))
             /\ ev' = [kind |-> "EnterNode", node |-> nodep, entry |-> m_state]
    /\ UNCHANGED <<opt, m_state, m_nextHandle, m_modp, m_inToggleOff, m_varnames,
                   m_beginHier, m_handleLines, pc, tree, issued, offHandles, addedVars>>
    /\ Fits(max)

ExitNode ==
    /\ Leaving("Node")
    /\ m_handleLines' = lineTrack(m_state, m_handleLines, Top.node)
    /\ stack' = Pop
    /\ ev' = [kind |-> "ExitNode", node |-> Top.node, exit |-> m_state, incs |-> <<>>]
    /\ UNCHANGED <<opt, m_state, m_nextHandle, m_modp, m_inToggleOff, m_varnames,
                   m_beginHier, pc, tree, issued, offHandles, addedVars, nread>>

-----------------------------------------------------------------------------
(* visit(AstVar): toggle coverage *)

\* value-type descriptions (AstNodeDType), after skipRefp
BasicDType(ranged, lo, hi) == [kind |-> "BasicDType", ranged |-> ranged, lo |-> lo, hi |-> hi]

UnpackArrayDType(lo, hi, sub) == [kind |-> "UnpackArrayDType", lo |-> lo, hi |-> hi, sub |-> sub]

PackArrayDType(lo, hi, sub) == [kind |-> "PackArrayDType", lo |-> lo, hi |-> hi, sub |-> sub]

MemberDType(name, sub) == [name |-> name, sub |-> sub]

StructDType(packed, members) == [kind |-> "StructDType", packed |-> packed, members |-> members]

UnionDType(members) == [kind |-> "UnionDType", members |-> members]

\* a type toggleVarRecurse has no case for (a class reference, a queue, ...)
OtherDType == [kind |-> "ClassRefDType"]

RECURSIVE width(_)
RECURSIVE SumWidth(_)
RECURSIVE MaxWidthOf(_)
\* AstNodeDType::width(): the bits of one (unpacked-array) element
width(dtypep) ==
    CASE dtypep.kind = "BasicDType" -> IF dtypep.ranged THEN dtypep.hi - dtypep.lo + 1 ELSE 1
      [] dtypep.kind = "UnpackArrayDType" -> width(dtypep.sub)
      [] dtypep.kind = "PackArrayDType" -> (dtypep.hi - dtypep.lo + 1) * width(dtypep.sub)
      [] dtypep.kind = "StructDType" -> SumWidth(dtypep.members)
      [] dtypep.kind = "UnionDType" -> MaxWidthOf(dtypep.members)
      [] OTHER -> 1

SumWidth(members) ==
    IF members = <<>> THEN 0 ELSE width(Head(members).sub) + SumWidth(Tail(members))

MaxWidthOf(members) ==
    IF members = <<>> THEN 0
    ELSE LET w == width(Head(members).sub)
             r == MaxWidthOf(Tail(members))
         IN IF w > r THEN w ELSE r

\* AstMemberDType::lsb() of the i-th member of a packed struct: the members are
\* laid out from the last (bit 0) to the first
lsb(members, i) == SumWidth(SubSeq(members, i + 1, Len(members)))

RECURSIVE arrayUnpackedElements(_)
arrayUnpackedElements(dtypep) ==
    IF dtypep.kind = "UnpackArrayDType"
    THEN (dtypep.hi - dtypep.lo + 1) * arrayUnpackedElements(dtypep.sub)
    ELSE 1

\* expressions selecting a part of a variable
VarRef(name, access) == [op |-> "VarRef", var |-> name, access |-> access]

Sel(fromp, lsbp, widthp) == [op |-> "Sel", fromp |-> fromp, lsb |-> lsbp, width |-> widthp]

ArraySel(fromp, bitp) == [op |-> "ArraySel", fromp |-> fromp, bit |-> bitp]

StructSel(fromp, name) == [op |-> "StructSel", fromp |-> fromp, name |-> name]

ToggleEnt(comment, varRefp, chgRefp) ==
    [m_comment |-> comment, m_varRefp |-> varRefp, m_chgRefp |-> chgRefp]

VarNode(fl, name, coverable, dtypep) ==
    [kind |-> "Var", fl |-> fl, name |-> name, isToggleCoverable |-> coverable,
     dtypep |-> dtypep]

RECURSIVE HasInlinedUnderscore(_)
\* prettyName.find("._") != string::npos
HasInlinedUnderscore(name) ==
    /\ Len(name) >= 2
    /\ \/ (name[1] = "." /\ name[2] = "_")
       \/ HasInlinedUnderscore(Tail(name))

RECURSIVE shortName(_)
\* AstVar::shortName(): the name after the last scope separator
shortName(name) ==
    IF \E i \in DOMAIN name : name[i] = "."
    THEN shortName(Tail(name))
    ELSE name

\* a uint32_t as its two 16-bit halves
U32(hi, lo) == [hi |-> hi, lo |-> lo]

\* static_cast<uint32_t> of an int
ToU32(n) ==
    IF n >= 0 THEN U32(n \div 65536, n % 65536)
    ELSE U32(65535 - ((-(n + 1)) \div 65536), 65535 - ((-(n + 1)) % 65536))

\* x * y modulo 2^16, of two 16-bit halves
MulMod16(x, y) == (((x % 256) * y) + ((((x \div 256) * y) % 256) * 256)) % 65536

\* the product of two uint32_t: modulo 2^32
MulU32(a, b) ==
    LET q1 == (a.lo \div 256) * b.lo
        q0 == (a.lo % 256) * b.lo
        lo == ((q1 % 256) * 256) + (q0 % 65536)
        hi == (q1 \div 256) + (q0 \div 65536) + (lo \div 65536)
    IN U32((hi + MulMod16(a.hi, b.lo) + MulMod16(a.lo, b.hi)) % 65536, lo % 65536)

\* a > b of two uint32_t
GtU32(a, b) == a.hi > b.hi \/ (a.hi = b.hi /\ a.lo > b.lo)

\* varIgnoreToggle: the reason not to cover the variable, "" for none
varIgnoreToggle(nodep) ==
    CASE ~nodep.isToggleCoverable -> "Not relevant signal type"
      [] ~opt.coverageUnderscore /\ nodep.name[1] = "_" -> "Leading underscore"
      [] ~opt.coverageUnderscore /\ HasInlinedUnderscore(nodep.name) ->
            "Inlined leading underscore"
      [] GtU32(MulU32(ToU32(width(nodep.dtypep)),
                      ToU32(arrayUnpackedElements(nodep.dtypep))),
               ToU32(opt.coverageMaxWidth)) ->
            "Wide bus/array > --coverage-max-width setting's bits"
      [] OTHER -> ""

\* toggleVarBottom: the AstCoverToggle added to the module
toggleVarBottom(above, varp, modp) ==
    [kind |-> "CoverToggle", fl |-> varp.fl,
     incp |-> newCoverInc(modp, varp.fl, <<>>, "v_toggle", varp.name \o above.m_comment,
                          <<>>, 0, <<>>),
     origp |-> above.m_varRefp, changep |-> above.m_chgRefp]

NoToggles == [toggles |-> <<>>, fatal |-> FALSE]

RECURSIVE JoinToggles(_)
\* the toggles of the iterations of a loop, up to the first that ends in v3fatalSrc
JoinToggles(rs) ==
    IF rs = <<>> THEN NoToggles
    ELSE IF Head(rs).fatal THEN Head(rs)
    ELSE LET rest == JoinToggles(Tail(rs))
         IN [toggles |-> Head(rs).toggles \o rest.toggles, fatal |-> rest.fatal]

Index(comment, index_docs) == comment \o <<"[">> \o cvtToStr(index_docs) \o <<"]">>

\* the bit indexes one too few: the loop written with `index_docs < hi`
BitIndexesShort(lo, hi) == hi - lo

\* the iterations of `for (index_docs = lo; index_docs < hi + 1; ++index_docs)`
BitIndexes(lo, hi) == hi + 1 - lo

\* every member of the union handled
UnionMembersAll(dtypep) == dtypep.members

\* the members of a union that are handled: `if (itemp = adtypep->membersp())`,
\* the first one if there is any
UnionMembers(dtypep) == IF dtypep.members # <<>> THEN <<dtypep.members[1]>> ELSE <<>>

\* the unexpected type passed over in silence
UnexpectedDTypeIgnored == [toggles |-> <<>>, fatal |-> FALSE]

\* dtypep->v3fatalSrc("Unexpected node data type in toggle coverage generation")
UnexpectedDType == [toggles |-> <<>>, fatal |-> TRUE]

RECURSIVE toggleVarRecurse(_, _, _, _)
toggleVarRecurse(dtypep, above, varp, modp) ==
    CASE dtypep.kind = "BasicDType" ->
            IF dtypep.ranged
            THEN JoinToggles(
                   [index_code1 \in 1..BitIndexes(dtypep.lo, dtypep.hi) |->
                      LET index_code == index_code1 - 1
                          index_docs == dtypep.lo + index_code
                          newent == ToggleEnt(Index(above.m_comment, index_docs),
                                              Sel(above.m_varRefp, index_code, 1),
                                              Sel(above.m_chgRefp, index_code, 1))
                      IN [toggles |-> <<toggleVarBottom(newent, varp, modp)>>,
                          fatal |-> FALSE]])
            ELSE [toggles |-> <<toggleVarBottom(above, varp, modp)>>, fatal |-> FALSE]
      [] dtypep.kind = "UnpackArrayDType" ->
            JoinToggles(
              [index_code1 \in 1..(dtypep.hi - dtypep.lo + 1) |->
                 LET index_code == index_code1 - 1
                     index_docs == dtypep.lo + index_code
                     newent == ToggleEnt(Index(above.m_comment, index_docs),
                                         ArraySel(above.m_varRefp, index_code),
                                         ArraySel(above.m_chgRefp, index_code))
                 IN toggleVarRecurse(dtypep.sub, newent, varp, modp)])
      [] dtypep.kind = "PackArrayDType" ->
            JoinToggles(
              [index_code1 \in 1..(dtypep.hi - dtypep.lo + 1) |->
                 LET index_code == index_code1 - 1
                     index_docs == dtypep.lo + index_code
                     w == width(dtypep.sub)
                     newent == ToggleEnt(Index(above.m_comment, index_docs),
                                         Sel(above.m_varRefp, index_code * w, w),
                                         Sel(above.m_chgRefp, index_code * w, w))
                 IN toggleVarRecurse(dtypep.sub, newent, varp, modp)])
      [] dtypep.kind = "StructDType" /\ dtypep.packed ->
            JoinToggles(
              [i \in DOMAIN dtypep.members |->
                 LET itemp == dtypep.members[i]
                     index_code == lsb(dtypep.members, i)
                     newent == ToggleEnt(above.m_comment \o <<".", itemp.name>>,
                                         Sel(above.m_varRefp, index_code, width(itemp.sub)),
                                         Sel(above.m_chgRefp, index_code, width(itemp.sub)))
                 IN toggleVarRecurse(itemp.sub, newent, varp, modp)])
      [] dtypep.kind = "StructDType" /\ ~dtypep.packed ->
            JoinToggles(
              [i \in DOMAIN dtypep.members |->
                 LET itemp == dtypep.members[i]
                     varRefp == StructSel(above.m_varRefp, itemp.name)
                     chgRefp == StructSel(above.m_varRefp, itemp.name)
                     newent == ToggleEnt(above.m_comment \o <<".", itemp.name>>,
                                         varRefp, chgRefp)
                 IN toggleVarRecurse(itemp.sub, newent, varp, modp)])
      [] dtypep.kind = "UnionDType" ->
            LET handled == UnionMembers(dtypep)
            IN JoinToggles(
                 [i \in DOMAIN handled |->
                    LET itemp == handled[i]
                        newent == ToggleEnt(above.m_comment \o <<".", itemp.name>>,
                                            above.m_varRefp, above.m_chgRefp)
                    IN toggleVarRecurse(itemp.sub, newent, varp, modp)])
      [] OTHER -> UnexpectedDType

\* visit(AstVar): the children are visited by visit(AstNode) (valuep: the variable
\* has an initial value, an expression on its line); then, at module scope, the
\* shadow variable and the toggles are added to the module
VisitVar(nodes, max) ==
    /\ Reading("Var")
    /\ m_modp # Null
    /\ \E nodep \in nodes, valuep \in BOOLEAN :
          LET considered == /\ ~m_inToggleOff
                            /\ ~m_state.m_inModOff
                            /\ nodep.fl.coverageOn
                            /\ opt.coverageToggle
              disablep == IF considered THEN varIgnoreToggle(nodep) ELSE ""
              covered == considered /\ disablep = ""
              newvarname == <<"__Vtogcov__">> \o shortName(nodep.name)
              newvec == ToggleEnt(<<>>, VarRef(nodep.name, "READ"),
                                  VarRef(newvarname, "WRITE"))
              r == IF covered THEN toggleVarRecurse(nodep.dtypep, newvec, nodep, m_modp)
                   ELSE NoToggles
          IN /\ m_handleLines' =
                    IF valuep
                    THEN lineTrack(m_state, m_handleLines, [kind |-> "Node", fl |-> nodep.fl])
                    ELSE m_handleLines
             /\ pc' = IF r.fatal THEN "fatal" ELSE pc
             /\ ev' = [kind |-> "VisitVar", node |-> nodep, entry |-> m_state,
                       considered |-> considered, disablep |-> disablep,
                       chgVars |-> IF covered THEN <<newvarname>> ELSE <<>>,
                       toggles |-> r.toggles, fatal |-> r.fatal, incs |-> <<>>,
                       after |-> ev.kind, added |-> Len(addedVars)]
             /\ addedVars' = addedVars
                   \o (IF covered THEN <<AddedVar(newvarname, nodep.name)>> ELSE <<>>)
    /\ stack' = Read("Var", TRUE)
    /\ UNCHANGED <<opt, m_state, m_nextHandle, m_modp, m_inToggleOff, m_varnames,
                   m_beginHier, tree, issued, offHandles>>
    /\ Fits(max)

-----------------------------------------------------------------------------
(* The pass over statements *)

Init == Construct(OptsAll)

OneLine == {FileLine(1, 1, 1, TRUE)}

\* the node read next is the first child of a node of this kind
FirstChildOf(kind) == stack # <<>> /\ Top.kind = kind /\ Top.n = 0

\* the node read next is a statement of a procedure, a task or a loop
InProcedure == \E i \in DOMAIN stack : stack[i].kind = "Procedure"

\* the node read next is a module item
InModule == ~InProcedure /\ stack # <<>> /\ Top.kind \in {"Module", "Begin"}

\* a two-bit vector x
PlainVars == {VarNode(fl, <<"x">>, TRUE, BasicDType(TRUE, 0, 1)) : fl \in OneLine}

Next ==
    \/ EnterModule(ModuleKinds, OneLine, MaxNodes)
    \/ ExitModule
    \/ InModule /\ EnterProcedure(ProcedureKinds, OneLine, MaxNodes)
    \/ InModule /\ SkipFTask({"Var"}, OneLine, MaxNodes)
    \/ ExitProcedure
    \/ InProcedure /\ EnterIf(OneLine, MaxNodes)
    \/ InProcedure /\ SkipIf(Unvisited, OneLine, MaxNodes)
    \/ IfElse
    \/ ExitIf
    \/ InProcedure /\ EnterCaseItem(OneLine, MaxNodes)
    \/ InProcedure /\ SkipCaseItem(Unvisited, OneLine, MaxNodes)
    \/ ExitCaseItem
    \/ EnterCover(OneLine, MaxNodes)
    \/ ExitCover
    \/ InProcedure /\ VisitStop(OneLine, MaxNodes)
    \/ InProcedure /\ VisitPragma(OneLine, MaxNodes)
    \/ EnterBegin(OneLine, MaxNodes)
    \/ ExitBegin
    \/ InProcedure /\ VisitStmt(OneLine, MaxNodes)
    \/ InProcedure /\ EnterNode(OneLine, MaxNodes)
    \/ ExitNode
    \/ VisitVar(PlainVars, MaxNodes)
    \/ Finish

Spec == Init /\ [][Next]_vars

-----------------------------------------------------------------------------
(* The pass over conditionals: always blocks of if / else if / else, $stop and
   plain statements, in a design compiled with --coverage --trace-coverage *)

InitIf == Construct({Opt(TRUE, TRUE, TRUE, TRUE)})

NextIf ==
    \/ FirstChildOf("Netlist") /\ EnterModule({"module"}, OneLine, MaxIfNodes)
    \/ ExitModule
    \/ FirstChildOf("Module") /\ EnterProcedure({"NodeProcedure"}, OneLine, MaxIfNodes)
    \/ ExitProcedure
    \/ InProcedure /\ EnterIf(OneLine, MaxIfNodes)
    \/ InProcedure /\ SkipIf({"Stmt"}, OneLine, MaxIfNodes)
    \/ IfElse
    \/ ExitIf
    \/ InProcedure /\ VisitStop(OneLine, MaxIfNodes)
    \/ InProcedure /\ VisitStmt(OneLine, MaxIfNodes)
    \/ Finish

SpecIf == InitIf /\ [][NextIf]_vars

-----------------------------------------------------------------------------
(* The pass over variable declarations: modules, nested modules and classes,
   always blocks and begin blocks holding single-bit variables, the first item of
   the first module a variable of any type shape *)

\* the [hi:lo] ranges of up to MaxWidth bits or elements
Ranges == {<<lo, lo + n - 1>> : lo \in 0..1, n \in 1..MaxWidth}

\* a single bit, and the bit vectors
ElemDTypes == {BasicDType(FALSE, 0, 0)} \cup {BasicDType(TRUE, r[1], r[2]) : r \in Ranges}

\* the arrays of S, and the structs and unions of a member of S and at most one
\* further member of T
Composite(S, T) ==
    LET members == {<<MemberDType("a", s)>> : s \in S}
                   \cup {<<MemberDType("a", s), MemberDType("b", t)>> : s \in S, t \in T}
    IN {UnpackArrayDType(r[1], r[2], s) : r \in Ranges, s \in S}
       \cup {PackArrayDType(r[1], r[2], s) : r \in Ranges, s \in S}
       \cup {StructDType(packed, m) : packed \in BOOLEAN, m \in members}
       \cup {UnionDType(m) : m \in members}

SubDTypes == ElemDTypes \cup Composite(ElemDTypes, ElemDTypes)

\* struct packed { logic [3:0] a; logic [7:0] b; }
Struct4and8 ==
    StructDType(TRUE, <<MemberDType("a", BasicDType(TRUE, 0, 3)),
                        MemberDType("b", BasicDType(TRUE, 0, 7))>>)

\* union packed { logic [3:0] a; logic [7:0] b; }
Union4and8 ==
    UnionDType(<<MemberDType("a", BasicDType(TRUE, 0, 3)),
                 MemberDType("b", BasicDType(TRUE, 0, 7))>>)

ToggleDTypes ==
    SubDTypes \cup Composite(SubDTypes, ElemDTypes)
        \cup {OtherDType, UnionDType(<<>>), Struct4and8, Union4and8}

\* types with a type of no supported kind inside: as the element of an array,
\* as the second member of a struct after a single bit, as the second and as
\* the first member of a union
OddDTypes ==
    {UnpackArrayDType(0, 1, OtherDType),
     StructDType(TRUE, <<MemberDType("a", BasicDType(FALSE, 0, 0)),
                         MemberDType("b", OtherDType)>>),
     UnionDType(<<MemberDType("a", BasicDType(FALSE, 0, 0)), MemberDType("b", OtherDType)>>),
     UnionDType(<<MemberDType("a", OtherDType), MemberDType("b", BasicDType(FALSE, 0, 0))>>)}

VarNames == {<<"x">>, <<"_", "x">>, <<"u", ".", "_", "x">>, <<"u", ".", "x">>}

\* a variable x of every type
TypedVars == {VarNode(fl, <<"x">>, TRUE, t) : fl \in OneLine, t \in ToggleDTypes}

\* a variable of every name, coverable or not, of the types with a type of no
\* supported kind
OddVars ==
    {VarNode(fl, name, coverable, t) :
        fl \in OneLine, name \in VarNames, coverable \in BOOLEAN,
        t \in OddDTypes \cup {OtherDType}}

\* a single bit of every name, coverable or not, inside or outside a
\* `coverage_off` region
NamedVars ==
    {VarNode(FileLine(1, 1, 1, on), name, coverable, BasicDType(FALSE, 0, 0)) :
        on \in BOOLEAN, name \in VarNames, coverable \in BOOLEAN}

\* the node read next is the first item of the first module of the design
FirstItem == FirstChildOf("Module") /\ nread = 1

InitToggle == Construct({Opt(TRUE, TRUE, TRUE, TRUE), Opt(TRUE, FALSE, FALSE, FALSE)})

NextToggle ==
    \/ EnterModule(ModuleKinds, OneLine, MaxToggleNodes)
    \/ ExitModule
    \/ InModule /\ EnterProcedure({"NodeProcedure"}, OneLine, MaxToggleNodes)
    \/ ExitProcedure
    \/ EnterBegin(OneLine, MaxToggleNodes)
    \/ ExitBegin
    \/ FirstItem /\ VisitVar(TypedVars \cup OddVars, MaxToggleNodes)
    \/ VisitVar(NamedVars, MaxToggleNodes)
    \/ Finish

SpecToggle == InitToggle /\ [][NextToggle]_vars

-----------------------------------------------------------------------------
(* The pass over the statements of an always block, loops among them, with $stop
   and scope-off pragmas before conditionals, case arms, loops and cover
   blocks, in a design compiled with --coverage-line --coverage-user *)

InitOff == Construct({Opt(TRUE, FALSE, TRUE, FALSE)})

NextOff ==
    \/ FirstChildOf("Netlist") /\ EnterModule({"module"}, OneLine, MaxOffNodes)
    \/ ExitModule
    \/ FirstChildOf("Module")
          /\ EnterProcedure({"NodeProcedure"}, OneLine, MaxOffNodes)
    \/ InProcedure /\ EnterProcedure({"While"}, OneLine, MaxOffNodes)
    \/ ExitProcedure
    \/ InProcedure /\ EnterIf(OneLine, MaxOffNodes)
    \/ InProcedure /\ SkipIf({"Stmt"}, OneLine, MaxOffNodes)
    \/ IfElse
    \/ ExitIf
    \/ InProcedure /\ EnterCaseItem(OneLine, MaxOffNodes)
    \/ InProcedure /\ SkipCaseItem({"Stmt"}, OneLine, MaxOffNodes)
    \/ ExitCaseItem
    \/ InProcedure /\ EnterCover(OneLine, MaxOffNodes)
    \/ ExitCover
    \/ InProcedure /\ VisitStop(OneLine, MaxOffNodes)
    \/ InProcedure /\ VisitPragma(OneLine, MaxOffNodes)
    \/ InProcedure /\ VisitStmt(OneLine, MaxOffNodes)
    \/ Finish

SpecOff == InitOff /\ [][NextOff]_vars

-----------------------------------------------------------------------------
(* The pass over one variable of a module under every underscore policy and
   several --coverage-max-width settings, the variable of a small type or of a
   type whose width times its element count reaches 2^31 or 2^32 *)

\* union { logic a; logic [2^30 - 1 : 0] b; }
WideUnion ==
    UnionDType(<<MemberDType("a", BasicDType(FALSE, 0, 0)),
                 MemberDType("b", BasicDType(TRUE, 0, 2^30 - 1))>>)

\* two and four elements of the wide union
WideDTypes == {UnpackArrayDType(0, e - 1, WideUnion) : e \in {2, 4}}

WidthVars ==
    {VarNode(fl, name, coverable, t) :
        fl \in OneLine, name \in VarNames, coverable \in BOOLEAN,
        t \in SubDTypes \cup WideDTypes}

InitWidth ==
    Construct({[Opt(TRUE, TRUE, TRUE, FALSE) EXCEPT !.coverageUnderscore = u,
                                                    !.coverageMaxWidth = m] :
                  u \in BOOLEAN, m \in {MaxWidth, 2 * MaxWidth, 256}})

NextWidth ==
    \/ EnterModule({"top", "module"}, OneLine, MaxWidthNodes)
    \/ ExitModule
    \/ FirstChildOf("Module") /\ VisitVar(WidthVars, MaxWidthNodes)
    \/ Finish

SpecWidth == InitWidth /\ [][NextWidth]_vars

-----------------------------------------------------------------------------
(* The pass over the lines of an always block: the block and its statements, in
   source order, on any of the lines 0..MaxLineNo (line 0: a location made by the
   compiler, not by the parser); or a cover block as the only module item *)

LinesFrom(l) == {FileLine(1, n, n, TRUE) : n \in l..MaxLineNo}

InitLines == Construct({Opt(TRUE, FALSE, FALSE, FALSE), Opt(FALSE, FALSE, TRUE, FALSE)})

NextLines ==
    \/ FirstChildOf("Netlist") /\ EnterModule({"module"}, OneLine, MaxLineNo + 2)
    \/ ExitModule
    \/ FirstChildOf("Module")
          /\ EnterProcedure({"NodeProcedure"}, LinesFrom(0), MaxLineNo + 2)
    \/ ExitProcedure
    \/ InProcedure /\ VisitStmt(LinesFrom(ev.node.fl.lineno + 1), MaxLineNo + 2)
    \/ FirstChildOf("Module") /\ EnterCover(OneLine, MaxLineNo + 2)
    \/ ExitCover
    \/ Finish

SpecLines == InitLines /\ [][NextLines]_vars

-----------------------------------------------------------------------------
(* The pass over case arms: an always block of case arms, $stop, pragmas and
   plain statements, the design compiled with line coverage *)

InitCase == Construct({Opt(TRUE, FALSE, FALSE, FALSE)})

NextCase ==
    \/ FirstChildOf("Netlist") /\ EnterModule({"module"}, OneLine, MaxCaseNodes)
    \/ ExitModule
    \/ FirstChildOf("Module") /\ EnterProcedure({"NodeProcedure"}, OneLine, MaxCaseNodes)
    \/ ExitProcedure
    \/ InProcedure /\ EnterCaseItem(OneLine, MaxCaseNodes)
    \/ InProcedure /\ SkipCaseItem({"Stmt"}, OneLine, MaxCaseNodes)
    \/ ExitCaseItem
    \/ InProcedure /\ VisitStop(OneLine, MaxCaseNodes)
    \/ InProcedure /\ VisitPragma(OneLine, MaxCaseNodes)
    \/ InProcedure /\ VisitStmt(OneLine, MaxCaseNodes)
    \/ Finish

SpecCase == InitCase /\ [][NextCase]_vars

-----------------------------------------------------------------------------
(* The pass over line tracking: an always block of conditionals, $stop, pragmas,
   statements and blocks, each in one of two files, on one of the lines
   1..MaxLine, inside or outside a `coverage_off` region *)

Locations == {FileLine(f, l, l, on) : f \in 1..2, l \in 1..MaxLine, on \in BOOLEAN}

InitTrack == Construct({Opt(TRUE, FALSE, FALSE, FALSE), Opt(FALSE, FALSE, TRUE, FALSE)})

NextTrack ==
    \/ FirstChildOf("Netlist") /\ EnterModule({"top", "module"}, OneLine, MaxTrackNodes)
    \/ ExitModule
    \/ FirstChildOf("Module") /\ EnterProcedure({"NodeProcedure"}, OneLine, MaxTrackNodes)
    \/ ExitProcedure
    \/ InProcedure /\ EnterIf(Locations, MaxTrackNodes)
    \/ InProcedure /\ SkipIf({"Stmt"}, OneLine, MaxTrackNodes)
    \/ IfElse
    \/ ExitIf
    \/ InProcedure /\ VisitStop(OneLine, MaxTrackNodes)
    \/ InProcedure /\ VisitPragma(Locations, MaxTrackNodes)
    \/ InProcedure /\ VisitStmt(Locations, MaxTrackNodes)
    \/ InProcedure /\ EnterNode(Locations, MaxTrackNodes)
    \/ ExitNode
    \/ Finish

SpecTrack == InitTrack /\ [][NextTrack]_vars

-----------------------------------------------------------------------------
(* Properties of the statement-level instrumentors *)

\* an inserted increment is the last node of the given list, on the given page,
\* with the given comment and column offset
IsPoint(a, kept, list, page, comment, offset) ==
    /\ a.list = list
    /\ a.pos = kept[list] + 1
    /\ a.inc.declp.page[1] = page
    /\ a.inc.declp.comment = comment
    /\ a.inc.declp.offset = offset

OnPage(incs, page) == {i \in DOMAIN incs : incs[i].inc.declp.page[1] = page}

Tagged(incs, comment) == {i \in DOMAIN incs : incs[i].inc.declp.comment = comment}

\* the handlers that open a scope of their own, at their return
ScopeReturns ==
    {"ExitIf", "SkipIf", "ExitModule", "ExitProcedure", "SkipFTask", "ExitCaseItem",
     "SkipCaseItem", "ExitCover"}

\* C1: when the visit of a conditional, a module, a procedure-like node, a case arm
\* or a cover block returns, m_state is what it was on entry; and the else-scope of a
\* conditional starts from the state saved on entry, enabled, with a handle newer
\* than the then-scope's, whatever the then-branch did to m_state.
C1_ScopeIsolation ==
    /\ ev.kind \in ScopeReturns => m_state = ev.entry
    /\ ev.kind = "IfElse" =>
          /\ m_state = [ev.entry EXCEPT !.m_on = TRUE, !.m_handle = m_nextHandle,
                                        !.m_nodep = ev.node]
          /\ m_state.m_handle > ev.ifState.m_handle

\* C1 witness: a conditional returns whose then-branch was disabled (a $stop or a
\* scope-off pragma in it), whose else-scope was enabled, into an enabled scope
C1_Witness ==
    /\ ev.kind = "ExitIf"
    /\ ~ev.ifState.m_on
    /\ ev.elseState.m_on
    /\ m_state.m_on

\* a conditional that is no link of an else-if chain: neither marked as the
\* continuation of one nor one whose else is exactly the next conditional
PlainIf(e) == ~e.user1 /\ ~(e.node.hasThen /\ e.node.elseShape = "if")

\* C2: a conditional that is no link of an else-if chain and whose then- and
\* else-scope both still have line coverage active gets exactly two increments,
\* "if"/offset 0 at the end of the then-branch and "else"/offset 1 at the end of the
\* else-branch, both on the branch page; a conditional with either scope inactive
\* gets no branch-page increment.
C2_PlainIfElseBranch ==
    ev.kind = "ExitIf" =>
        LET ifOn == lineCoverageOn(ev.ifState, ev.node)
            elseOn == lineCoverageOn(ev.elseState, ev.node)
        IN /\ (PlainIf(ev) /\ ifOn /\ elseOn) =>
                /\ Len(ev.incs) = 2
                /\ IsPoint(ev.incs[1], ev.kept, "thens", "v_branch", "if", 0)
                /\ IsPoint(ev.incs[2], ev.kept, "elses", "v_branch", "else", 1)
           /\ ~(ifOn /\ elseOn) => OnPage(ev.incs, "v_branch") = {}

\* C2 witness: an if with statements in both branches got its two branch increments
C2_Witness ==
    /\ ev.kind = "ExitIf"
    /\ PlainIf(ev)
    /\ ev.node.hasThen /\ ev.node.elseShape = "other"
    /\ Len(ev.incs) = 2
    /\ ev.kept.thens >= 1 /\ ev.kept.elses >= 1

LinkOn(l) == lineCoverageOn(l.ifState, l.node) /\ lineCoverageOn(l.elseState, l.node)

\* ev.chain is a chain in the sense of C3: two or more conditionals, the last with a
\* non-conditional else, every branch scope still enabled
FullChain(c) ==
    /\ Len(c) >= 2
    /\ c[Len(c)].node.elseShape = "other"
    /\ \A i \in DOMAIN c : LinkOn(c[i])

\* C3: in an else-if chain with a final else whose branch scopes all stay enabled,
\* every conditional but the last gets exactly one increment, "elsif" on the line
\* page at the end of its then-branch; the last gets one line-page increment at the
\* end of its then-branch and one, "else"/offset 1, at the end of the final else;
\* no conditional gets both a branch-page and an "elsif" increment.
C3_ElsifChain ==
    ev.kind = "ExitIf" =>
        LET c == ev.chain
            n == Len(c)
        IN /\ FullChain(c) =>
                /\ \A i \in 1..(n - 1) :
                      /\ Len(c[i].incs) = 1
                      /\ IsPoint(c[i].incs[1], c[i].kept, "thens", "v_line", "elsif", 0)
                /\ Len(c[n].incs) = 2
                /\ OnPage(c[n].incs, "v_line") = {1, 2}
                /\ c[n].incs[1].list = "thens"
                /\ c[n].incs[1].pos = c[n].kept.thens + 1
                /\ IsPoint(c[n].incs[2], c[n].kept, "elses", "v_line", "else", 1)
           /\ \A i \in DOMAIN c :
                ~(OnPage(c[i].incs, "v_branch") # {} /\ Tagged(c[i].incs, "elsif") # {})

\* C3 witness: the head of a full chain of two or more conditionals returns
C3_Witness ==
    /\ ev.kind = "ExitIf"
    /\ ~ev.user1
    /\ FullChain(ev.chain)
    /\ \A i \in DOMAIN ev.chain : ev.chain[i].incs # <<>>

\* the increments of independent half coverage for the scopes still active
HalfCoverage(e) ==
    LET ifOn == lineCoverageOn(e.ifState, e.node)
        elseOn == lineCoverageOn(e.elseState, e.node)
    IN /\ Len(e.incs) = (IF ifOn THEN 1 ELSE 0) + (IF elseOn THEN 1 ELSE 0)
       /\ OnPage(e.incs, "v_line") = DOMAIN e.incs
       /\ ifOn => IsPoint(e.incs[1], e.kept, "thens", "v_line", "if", 0)
       /\ elseOn => IsPoint(e.incs[Len(e.incs)], e.kept, "elses", "v_line", "else", 1)

\* C4 as stated: a conditional marked as a chain continuation whose else is not
\* exactly one trailing conditional gets half coverage only, never a branch-page
\* increment, also when it has no else-branch.
C4_TerminalElsifAnyElse ==
    (ev.kind = "ExitIf" /\ ev.user1 /\ ev.node.elseShape # "if") => HalfCoverage(ev)

\* C4 amended: a conditional marked as a chain continuation that has an else-branch
\* which is not exactly one trailing conditional gets half coverage only, never a
\* branch-page increment.
C4_TerminalElsif ==
    (ev.kind = "ExitIf" /\ ev.user1 /\ ev.node.elseShape = "other") => HalfCoverage(ev)

\* C4 witness: the last conditional of a chain, with a final else, both scopes active
C4_Witness ==
    /\ ev.kind = "ExitIf"
    /\ ev.user1
    /\ ev.node.elseShape = "other"
    /\ Len(ev.incs) = 2

\* C5: with user coverage enabled, every cover block without an increment of its
\* own ends the pass with exactly one increment tagged "cover", wherever it sits.
C5_CoverAlwaysInstrumented ==
    /\ (ev.kind = "ExitCover" /\ opt.coverageUser /\ ~ev.node.coverincsp) =>
          /\ Len(ev.incs) = 1
          /\ ev.incs[1].inc.declp.comment = "cover"
    /\ (pc = "done" /\ opt.coverageUser) => \A t \in tree : t.kind # "Cover"

\* C6: after the pass the tree holds no scope-off pragma, and every other pragma
\* is still linked.
C6_NoScopeOffPragmaLeft ==
    /\ ev.kind = "VisitPragma" => ev.unlinked = (ev.node.pragType = "COVERAGE_BLOCK_OFF")
    /\ pc = "done" => \A t \in tree : t.kind # "PragmaOff"

-----------------------------------------------------------------------------
(* Properties of the toggle expander *)

RECURSIVE SameLane(_, _, _, _)
\* chg selects from the variable chgVar what orig selects from the variable var:
\* the same chain of bit slices, element selections and field selections
SameLane(orig, chg, var, chgVar) ==
    /\ orig.op = chg.op
    /\ CASE orig.op = "VarRef" -> orig.var = var /\ chg.var = chgVar
         [] orig.op = "Sel" ->
               /\ orig.lsb = chg.lsb
               /\ orig.width = chg.width
               /\ SameLane(orig.fromp, chg.fromp, var, chgVar)
         [] orig.op = "ArraySel" ->
               orig.bit = chg.bit /\ SameLane(orig.fromp, chg.fromp, var, chgVar)
         [] orig.op = "StructSel" ->
               orig.name = chg.name /\ SameLane(orig.fromp, chg.fromp, var, chgVar)

\* C7: every toggle record of an instrumented variable pairs a reference into the
\* variable with a reference to the same bit-lane (the same chain of bit slices,
\* element selections and field selections) of its shadow variable, for every
\* type shape.
C7_ToggleShadowLane ==
    ev.kind = "VisitVar" =>
        \A i \in DOMAIN ev.toggles :
            SameLane(ev.toggles[i].origp, ev.toggles[i].changep, ev.node.name,
                     ev.chgVars[1])

RECURSIVE LeafCount(_)
RECURSIVE LeafCountAll(_)
\* the terminal bit-lanes of a type: one per bit index of a ranged scalar, one for
\* a single bit, the sum over the elements of an array and over the members of a
\* struct, those of the first member of a union
LeafCount(t) ==
    CASE t.kind = "BasicDType" -> IF t.ranged THEN t.hi - t.lo + 1 ELSE 1
      [] t.kind \in {"UnpackArrayDType", "PackArrayDType"} ->
            (t.hi - t.lo + 1) * LeafCount(t.sub)
      [] t.kind = "StructDType" -> LeafCountAll(t.members)
      [] t.kind = "UnionDType" ->
            IF t.members = <<>> THEN 0 ELSE LeafCount(t.members[1].sub)
      [] OTHER -> 0

LeafCountAll(members) ==
    IF members = <<>> THEN 0
    ELSE LeafCount(Head(members).sub) + LeafCountAll(Tail(members))

RECURSIVE Supported(_)
\* the decomposition meets only the type shapes it supports
Supported(t) ==
    CASE t.kind = "BasicDType" -> TRUE
      [] t.kind \in {"UnpackArrayDType", "PackArrayDType"} -> Supported(t.sub)
      [] t.kind = "StructDType" -> \A i \in DOMAIN t.members : Supported(t.members[i].sub)
      [] t.kind = "UnionDType" -> t.members # <<>> => Supported(t.members[1].sub)
      [] OTHER -> FALSE

RECURSIVE PackedOnly(_)
\* a scalar, or packed arrays and packed structs of scalars: one vector of bits
PackedOnly(t) ==
    CASE t.kind = "BasicDType" -> TRUE
      [] t.kind = "PackArrayDType" -> PackedOnly(t.sub)
      [] t.kind = "StructDType" ->
            t.packed /\ \A i \in DOMAIN t.members : PackedOnly(t.members[i].sub)
      [] OTHER -> FALSE

RECURSIVE BitOf(_)
\* the bit of the variable a chain of bit slices selects
BitOf(ref) == IF ref.op = "Sel" THEN BitOf(ref.fromp) + ref.lsb ELSE 0

\* the toggles of the variable whose comment path starts with the given member
OfMember(e, name) ==
    {i \in DOMAIN e.toggles :
        LET c == e.toggles[i].incp.declp.comment
            n == Len(e.node.name)
        IN Len(c) >= n + 2 /\ c[n + 1] = "." /\ c[n + 2] = name}

\* C8: an instrumented variable gets exactly one shadow variable and exactly one
\* toggle point per terminal bit-lane, the lanes pairwise distinct; the points of
\* a vector of bits select every bit of the vector exactly once, one bit each;
\* the points of a member of a packed struct select the bits from the member's
\* offset up to its width (12 points for a struct of a 4-bit and an 8-bit field).
C8_ToggleFanOut ==
    (ev.kind = "VisitVar" /\ ev.considered /\ ev.disablep = ""
        /\ Supported(ev.node.dtypep)) =>
        LET t == ev.node.dtypep
            leaf(i) == ev.toggles[i].origp
        IN /\ Len(ev.chgVars) = 1
           /\ ~ev.fatal
           /\ Len(ev.toggles) = LeafCount(t)
           /\ \A i, j \in DOMAIN ev.toggles : leaf(i) = leaf(j) => i = j
           /\ PackedOnly(t) =>
                /\ {BitOf(leaf(i)) : i \in DOMAIN ev.toggles} = 0..(width(t) - 1)
                /\ \A i \in DOMAIN ev.toggles : leaf(i).op = "Sel" => leaf(i).width = 1
           /\ (PackedOnly(t) /\ t.kind = "StructDType") =>
                \A m \in DOMAIN t.members :
                    LET first == lsb(t.members, m)
                        last == first + width(t.members[m].sub) - 1
                    IN {BitOf(leaf(i)) : i \in OfMember(ev, t.members[m].name)}
                          = first..last
           /\ t = Struct4and8 => Len(ev.toggles) = 12

\* C8 witness: a variable of the packed struct of a 4-bit and an 8-bit field got
\* its shadow variable and its 12 toggle points
C8_Witness ==
    /\ ev.kind = "VisitVar"
    /\ ev.node.dtypep = Struct4and8
    /\ Len(ev.chgVars) = 1
    /\ Len(ev.toggles) = 12

-----------------------------------------------------------------------------
(* Properties of the line-range renderer *)

RECURSIVE Split(_, _)
\* the pieces of a string between the occurrences of a separator
Split(str, sep) ==
    IF \E i \in DOMAIN str : str[i] = sep
    THEN LET i == CHOOSE k \in DOMAIN str : str[k] = sep /\ \A j \in 1..(k - 1) : str[j] # sep
         IN <<SubSeq(str, 1, i - 1)>> \o Split(SubSeq(str, i + 1, Len(str)), sep)
    ELSE <<str>>

DigitVal(c) == CHOOSE d \in 0..9 : Digit(d) = c

RECURSIVE ParseInt(_)
ParseInt(str) ==
    IF str = <<>> THEN 0
    ELSE ParseInt(SubSeq(str, 1, Len(str) - 1)) * 10 + DigitVal(str[Len(str)])

\* the lines of one item, "first-last" or "line"
ItemLines(item) ==
    LET p == Split(item, "-")
    IN IF item = <<>> THEN {}
       ELSE IF Len(p) = 1 THEN {ParseInt(p[1])}
       ELSE ParseInt(p[1]) .. ParseInt(p[2])

\* a rendered string split on commas, every item expanded
ParseLines(str) ==
    LET items == Split(str, ",") IN UNION {ItemLines(items[i]) : i \in DOMAIN items}

\* the first lines of the maximal runs of consecutive lines
RunStarts(S) == {l \in S : l - 1 \notin S}

\* out renders S: it parses back to S, has one item per maximal run, no hyphen in
\* the item of a run of one line, and is empty for the empty set
Renders(S, out) ==
    LET items == Split(out, ",")
    IN /\ ParseLines(out) = S
       /\ S = {} => out = <<>>
       /\ S # {} => Len(items) = Cardinality(RunStarts(S))
       /\ \A i \in DOMAIN items :
            LET p == Split(items[i], "-")
            IN Len(p) <= 2 /\ (Len(p) = 2 => ParseInt(p[1]) < ParseInt(p[2]))

\* a handler that rendered the line set of its scope into a new declaration
RenderedLines == ev.kind \in {"ExitProcedure", "ExitCover"} /\ ev.incs # <<>>

\* the line set of the scope of the handler, and the string rendered from it
ScopeLines == HandleLines(m_handleLines, ev.exit.m_handle)

ScopeLinesCov == ev.incs[1].inc.declp.linescov

\* C9 as stated: the string rendered from any set of distinct integers parses
\* back (split on commas, then on hyphens, ranges expanded) to exactly that set,
\* with one item per maximal run, no hyphen for a run of one, the empty string
\* for the empty set, and the same string whenever the set is rendered again.
C9_LinesRoundTripAnyInt ==
    RenderedLines =>
        /\ Renders(ScopeLines, ScopeLinesCov)
        /\ linesCov(ev.exit, m_handleLines) = ScopeLinesCov

\* C9 amended: the same, for any set of distinct positive integers.
C9_LinesRoundTrip ==
    (RenderedLines /\ \A l \in ScopeLines : l > 0) =>
        /\ Renders(ScopeLines, ScopeLinesCov)
        /\ linesCov(ev.exit, m_handleLines) = ScopeLinesCov

\* C9 witness: the lines {3,4,5,9,10,12} of an always block rendered "3-5,9-10,12"
C9_Witness ==
    /\ ev.kind = "ExitProcedure"
    /\ ev.incs # <<>>
    /\ ScopeLines = {3, 4, 5, 9, 10, 12}
    /\ ScopeLinesCov = <<"3", "-", "5", ",", "9", "-", "1", "0", ",", "1", "2">>

-----------------------------------------------------------------------------
(* Properties of the trace names *)

\* the handlers that request trace names
NamingReturns == {"ExitProcedure", "ExitIf", "ExitCaseItem"}

Suffixed(base, k) == IF k = 0 THEN base ELSE base \o <<"_">> \o cvtToStr(k)

\* the names among the given ones that were returned for the base name
RequestsOf(names, base) ==
    {n \in names : \E k \in 0..Cardinality(names) : n = Suffixed(base, k)}

\* C10: a request for a trace name returns the base name (file, line, type) if
\* the base name was not requested since the pass entered the current top-level
\* module, and the base name with suffix _k if it was requested k times since;
\* so the names requested within one top-level module are pairwise distinct,
\* a new top-level module starts unsuffixed again, a nested module does not.
C10_TraceNameUnique ==
    ev.kind \in NamingReturns =>
        /\ Len(ev.names) = Len(ev.incs)
        /\ \A i \in DOMAIN ev.names :
             LET base == traceBaseName(ev.node, ev.incs[i].inc.declp.comment)
                 earlier == ev.before \cup {ev.names[j] : j \in 1..(i - 1)}
                 k == Cardinality(RequestsOf(earlier, base))
             IN /\ ev.names[i] = Suffixed(base, k)
                /\ ev.names[i] \notin earlier

\* C10 witness: in the second top-level module a request returns, unsuffixed, a
\* name the first top-level module was given too
C10_Witness ==
    /\ ev.kind \in NamingReturns
    /\ Len(issued) = 2
    /\ ev.names # <<>>
    /\ ev.names[1] = traceBaseName(ev.node, ev.incs[1].inc.declp.comment)
    /\ ev.names[1] \in issued[1]

-----------------------------------------------------------------------------
(* Properties of case arms, handles, declarations and line sets *)

\* C11: a case arm is entered as a scope of its own (a new handle) only if the
\* parent scope has line coverage active for it, and is left alone otherwise; on
\* return it has got exactly one increment, "case" on the line page at the end of
\* its statements, if line coverage is still active after its body, and none
\* otherwise, none in particular after a $stop or scope-off pragma among its
\* statements; the parent's state is then what it was, so the arms after it are
\* treated as if it had not been there.
C11_CaseArm ==
    /\ ev.kind = "EnterCaseItem" =>
          /\ lineCoverageOn(ev.entry, ev.node)
          /\ m_state.m_handle = m_nextHandle
          /\ m_state.m_handle > ev.entry.m_handle
    /\ ev.kind = "SkipCaseItem" =>
          /\ ~lineCoverageOn(ev.entry, ev.node)
          /\ ev.incs = <<>>
          /\ m_state = ev.entry
    /\ ev.kind = "ExitCaseItem" =>
          /\ lineCoverageOn(ev.exit, ev.node) =>
                /\ Len(ev.incs) = 1
                /\ IsPoint(ev.incs[1], ev.kept, "stmts", "v_line", "case", 0)
          /\ ~lineCoverageOn(ev.exit, ev.node) => ev.incs = <<>>
          /\ ev.stopped => ev.incs = <<>>
          /\ m_state = ev.entry

\* C11 witness: an arm returns with its increment right after a sibling arm that
\* was disabled by a $stop or a scope-off pragma returned without one
C11_Witness ==
    /\ ev.kind = "ExitCaseItem"
    /\ ev.afterOffArm
    /\ ~ev.stopped
    /\ Len(ev.incs) = 1

\* the handles in use: the current scope's, those of the scopes saved on the
\* stack, those with a line set
LiveHandles ==
    {m_state.m_handle} \cup DOMAIN m_handleLines
        \cup {stack[i].saved.m_handle : i \in {j \in DOMAIN stack : stack[j].saved # Null}}

\* one step of the pass, as to handles
HandleStep ==
    /\ m_nextHandle' >= m_nextHandle
    /\ m_nextHandle' # m_nextHandle =>
          /\ m_nextHandle' = m_nextHandle + 1
          /\ m_state'.m_handle = m_nextHandle'
          /\ \A h \in LiveHandles : h < m_state'.m_handle
    /\ m_nextHandle' = m_nextHandle => m_state'.m_handle \in LiveHandles
    /\ ev'.kind = "ExitIf" =>
          /\ ev'.ifState.m_handle # ev'.elseState.m_handle
          /\ ev'.ifState.m_nodep = ev'.node
          /\ ev'.elseState.m_nodep = ev'.node

\* C12: the handle counter never goes down, not either when a top-level module
\* clears the tables; a step that enters a scope gives it the counter's next
\* value, greater than every handle in use, and every other step leaves the
\* current scope with a handle already in use; so no handle is given twice, and
\* the then- and the else-scope of a conditional have different handles over the
\* conditional as their node.
C12_HandleUnique ==
    /\ [](\A h \in LiveHandles : h <= m_nextHandle)
    /\ [][HandleStep]_vars

\* C12 witness: a conditional returns in the second top-level module, after the
\* tables were cleared, its two scopes with handles above the first module's
C12_Witness ==
    /\ ev.kind = "ExitIf"
    /\ Len(issued) = 2
    /\ ev.ifState.m_handle > 2
    /\ ev.elseState.m_handle > ev.ifState.m_handle

\* the child lists a handler splices its increments into
SpliceLists(kind) ==
    CASE kind = "ExitIf" -> {"thens", "elses"}
      [] kind \in {"ExitProcedure", "ExitCaseItem"} -> {"stmts"}
      [] kind = "ExitCover" -> {"coverincs"}
      [] OTHER -> {}

\* an increment with a declaration of its own that the module owns
OwnedBy(incp, modp) ==
    /\ incp.kind = "CoverInc"
    /\ incp.declp.kind = "CoverDecl"
    /\ modp # Null
    /\ incp.declp.modp = modp

\* C13: every declaration a handler creates belongs to the module current at
\* that moment and to exactly one increment, which the handler has spliced in
\* when it returns: as the last node of a branch of the conditional, of the
\* statements of the case arm or the procedure, as the increment of the cover
\* block, or inside a toggle record added to the module; a handler splices as
\* many increments as it requested declarations, into lists of its own node.
C13_DeclOwnedAndSpliced ==
    /\ "incs" \in DOMAIN ev =>
          \A i \in DOMAIN ev.incs :
              /\ OwnedBy(ev.incs[i].inc, m_modp)
              /\ ev.incs[i].list \in SpliceLists(ev.kind)
              /\ ev.incs[i].pos = ev.kept[ev.incs[i].list] + 1
              /\ \A j \in DOMAIN ev.incs : ev.incs[j].list = ev.incs[i].list => j = i
    /\ "names" \in DOMAIN ev => Len(ev.names) = Len(ev.incs)
    /\ ev.kind = "VisitVar" =>
          \A i \in DOMAIN ev.toggles :
              /\ ev.toggles[i].kind = "CoverToggle"
              /\ OwnedBy(ev.toggles[i].incp, m_modp)

\* C13 witness: a handler inside a class nested in a module returns with an
\* increment whose declaration the class owns
C13_Witness ==
    /\ "incs" \in DOMAIN ev
    /\ ev.incs # <<>>
    /\ m_modp # Null
    /\ m_modp.isClass
    /\ ev.incs[1].inc.declp.modp = m_modp

\* one step of the pass, as to the line sets: the lines a step adds to a handle
LineStep ==
    \A h \in DOMAIN m_handleLines' :
        LET new == HandleLines(m_handleLines', h) \ HandleLines(m_handleLines, h)
        IN new # {} =>
              /\ h = m_state.m_handle
              /\ m_state.m_on
              /\ ~m_state.m_inModOff
              /\ opt.coverageLine
              /\ h \notin offHandles
              /\ ev'.node.fl.coverageOn
              /\ ev'.node.fl.filenameno = m_state.m_nodep.fl.filenameno
              /\ new \subseteq ev'.node.fl.firstLineno .. ev'.node.fl.lastLineno

\* C14: a step adds lines to the line set of a handle only if the handle is the
\* current scope's, the scope is enabled and not module-suppressed, line coverage
\* is enabled, and the lines are those of the node visited, which is not
\* source-suppressed and is in the file of the node that established the handle;
\* no line is added to the handle of a scope that a $stop or a scope-off pragma
\* has disabled.
C14_LineSetAccumulation == [][LineStep]_vars

\* C14 witness: a statement that would be tracked is visited in a scope a $stop
\* or pragma has disabled, and its line is not in the scope's line set
C14_Witness ==
    /\ ev.kind = "VisitStmt"
    /\ m_state.m_handle \in offHandles
    /\ opt.coverageLine
    /\ ev.node.fl.coverageOn
    /\ ev.node.fl.filenameno = m_state.m_nodep.fl.filenameno
    /\ ev.node.fl.lineno \notin HandleLines(m_handleLines, m_state.m_handle)

\* C15: a procedure, loop, or function or task that is no import is visited as a
\* scope of its own and returns with exactly one increment, "block" on the line
\* page after the last of its statements, if line coverage is still active for
\* it after its children were visited, and with none otherwise; an imported
\* function gets no scope and no increment, and its children are not visited.
C15_ProcedureBlock ==
    /\ ev.kind = "EnterProcedure" =>
          /\ ~ev.node.dpiImport
          /\ m_state.m_handle = m_nextHandle
          /\ m_state.m_nodep = ev.node
    /\ ev.kind = "ExitProcedure" =>
          /\ ev.node.type \in ProcedureKinds
          /\ lineCoverageOn(ev.exit, ev.node) =>
                /\ Len(ev.incs) = 1
                /\ IsPoint(ev.incs[1], ev.kept, "stmts", "v_line", "block", 0)
          /\ ~lineCoverageOn(ev.exit, ev.node) => ev.incs = <<>>
    /\ ev.kind = "SkipFTask" =>
          /\ ev.node.dpiImport
          /\ ev.incs = <<>>
          /\ m_state = ev.entry
          /\ m_nextHandle = ev.handles
          /\ \A k \in ev.below : [kind |-> k, under |-> "NodeFTask"] \in tree

\* C15 witness: a loop returns with its block increment after its statements
C15_Witness ==
    /\ ev.kind = "ExitProcedure"
    /\ ev.node.type = "While"
    /\ ev.kept.stmts >= 1
    /\ Len(ev.incs) = 1
    /\ ev.incs[1].pos = ev.kept.stmts + 1

\* C16: the toggles of a variable of union type are those of the union's first
\* declared member alone: as many as the member has bit-lanes, each with the
\* member's name after the variable's in its comment, selecting the bits of the
\* variable the member's own decomposition selects, and none for any other
\* member; union {a: 4 bits, b: 8 bits} gives the four points x.a[0] .. x.a[3];
\* a union without members gives no point.
C16_UnionFirstMember ==
    (ev.kind = "VisitVar" /\ ev.considered /\ ev.disablep = ""
        /\ ev.node.dtypep.kind = "UnionDType") =>
        LET t == ev.node.dtypep
            comment(i) == ev.toggles[i].incp.declp.comment
        IN /\ t.members = <<>> => (ev.toggles = <<>> /\ ~ev.fatal)
           /\ (t.members # <<>> /\ Supported(t.members[1].sub)) =>
                LET first == t.members[1]
                IN /\ ~ev.fatal
                   /\ Len(ev.toggles) = LeafCount(first.sub)
                   /\ OfMember(ev, first.name) = DOMAIN ev.toggles
                   /\ \A m \in DOMAIN t.members :
                        t.members[m].name # first.name =>
                            OfMember(ev, t.members[m].name) = {}
                   /\ PackedOnly(first.sub) =>
                        {BitOf(ev.toggles[i].origp) : i \in DOMAIN ev.toggles}
                            = 0..(width(first.sub) - 1)
           /\ t = Union4and8 =>
                /\ Len(ev.toggles) = 4
                /\ \A i \in 1..4 :
                     comment(i) = Index(ev.node.name \o <<".", "a">>, i - 1)

\* C16 witness: the union of a 4-bit a and an 8-bit b was instrumented
C16_Witness ==
    /\ ev.kind = "VisitVar"
    /\ ev.considered
    /\ ev.disablep = ""
    /\ ev.node.dtypep = Union4and8
    /\ Len(ev.toggles) = 4

\* a name that starts with an underscore or has a component that does
UnderscoreName(name) ==
    \/ name[1] = "_"
    \/ \E i \in 1..(Len(name) - 1) : name[i] = "." /\ name[i + 1] = "_"

\* w * e > max over the integers, for max >= 0
OverLimit(w, e, max) == w > 0 /\ e > max \div w

\* C17: a variable visited at module scope with toggle coverage enabled gets its
\* shadow variable if and only if its type is toggle-eligible, the underscore
\* policy does not exclude its name, and its bit width times its count of
\* unpacked elements, as a product of integers, is at most the maximum width.
C17_ToggleEligibility ==
    (ev.kind = "VisitVar" /\ ev.considered) =>
        LET t == ev.node.dtypep
        IN Len(ev.chgVars) = 1 <=>
              /\ ev.node.isToggleCoverable
              /\ opt.coverageUnderscore \/ ~UnderscoreName(ev.node.name)
              /\ ~OverLimit(width(t), arrayUnpackedElements(t), opt.coverageMaxWidth)

\* C18: the variables the pass adds within one top-level module (toggle shadow
\* variables of different variables, trace variables of line points and of
\* cover blocks) have pairwise distinct names.
C18_AddedNamesDistinct ==
    \A i, j \in DOMAIN addedVars :
        (/\ i # j
         /\ addedVars[i].top = addedVars[j].top
         /\ addedVars[i].name = addedVars[j].name)
        => (addedVars[i].of # <<>> /\ addedVars[i].of = addedVars[j].of)

\* the variable just visited lies inside a procedure or a begin block
Enclosed == \E i \in DOMAIN stack : stack[i].kind \in {"Procedure", "Begin"}

\* C19: toggle instrumentation is suppressed exactly while the visit is inside
\* a procedure or a begin block, at any depth: a variable declared there gets no
\* shadow variable and no toggle point; when the visit of the procedure or block
\* returns the flag is what it was on entry, and a variable of the module
\* visited next is considered for instrumentation again.
C19_ToggleSuppression ==
    /\ pc = "run" => (m_inToggleOff <=> Enclosed)
    /\ ev.kind = "VisitVar" =>
          /\ Enclosed => (~ev.considered /\ ev.chgVars = <<>> /\ ev.toggles = <<>>)
          /\ ev.considered <=>
                /\ ~Enclosed
                /\ ~ev.entry.m_inModOff
                /\ ev.node.fl.coverageOn
                /\ opt.coverageToggle
          /\ (ev.considered /\ ev.disablep = "") => Len(ev.chgVars) = 1

\* C19 witness: a variable of the module is instrumented right after the visit
\* of a begin block or a procedure next to it returned
C19_Witness ==
    /\ ev.kind = "VisitVar"
    /\ ev.after \in {"ExitBegin", "ExitProcedure"}
    /\ ~Enclosed
    /\ Len(ev.chgVars) = 1
    /\ ev.toggles # <<>>

\* C19 witness of the depth: a coverable variable two blocks deep was skipped
C19_WitnessNested ==
    /\ ev.kind = "VisitVar"
    /\ Cardinality({i \in DOMAIN stack : stack[i].kind \in {"Procedure", "Begin"}}) >= 2
    /\ ev.node.isToggleCoverable
    /\ ev.chgVars = <<>>

RECURSIVE Dotted(_)
\* names joined with "."
Dotted(names) ==
    IF names = <<>> THEN <<>>
    ELSE IF Len(names) = 1 THEN names
    ELSE <<Head(names), ".">> \o Dotted(Tail(names))

\* the names of the named begin blocks the visit is inside, outermost first
EnclosingNames ==
    LET begins == SelectSeq(stack, LAMBDA f : f.kind = "Begin" /\ f.node.name # "")
    IN [i \in DOMAIN begins |-> begins[i].node.name]

\* C20: the path of named scopes is at every moment the names of the enclosing
\* named begin blocks joined with ".", outermost first (nothing for an unnamed
\* block, empty outside every named block), so it is on return from a block
\* what it was on entry; a cover block's declaration gets that path as its
\* hierarchy prefix.
C20_BeginHierarchy ==
    /\ pc = "run" => m_beginHier = Dotted(EnclosingNames)
    /\ (ev.kind = "ExitCover" /\ ev.incs # <<>>) =>
          ev.incs[1].inc.declp.hier = Dotted(EnclosingNames)

\* C20 witness: a cover block inside block h inside block g got the prefix g.h
C20_Witness ==
    /\ ev.kind = "ExitCover"
    /\ ev.incs # <<>>
    /\ EnclosingNames = <<"g", "h">>
    /\ ev.incs[1].inc.declp.hier = <<"g", ".", "h">>

\* C21: the decomposition of a variable ends in a fatal error exactly if the
\* variable is considered and eligible and the descent through its type (the
\* elements of arrays, the members of structs, the first member of a union)
\* meets a type that is no scalar, array, struct or union; the pass stops there
\* and nowhere else.  A considered variable that is not eligible raises no error
\* and adds nothing: no shadow variable, no toggle with its declaration.
C21_ToggleErrors ==
    /\ pc = "fatal" <=> (ev.kind = "VisitVar" /\ ev.fatal)
    /\ ev.kind = "VisitVar" =>
          /\ ev.fatal <=>
                (ev.considered /\ ev.disablep = "" /\ ~Supported(ev.node.dtypep))
          /\ (ev.considered /\ ev.disablep # "") =>
                /\ ~ev.fatal
                /\ ev.chgVars = <<>>
                /\ ev.toggles = <<>>
                /\ Len(addedVars) = ev.added

\* C21 witness: the struct of a bit and a member of no supported kind ended the
\* pass after the toggle of the bit
C21_Witness ==
    /\ pc = "fatal"
    /\ ev.kind = "VisitVar"
    /\ ev.node.dtypep.kind = "StructDType"
    /\ Len(ev.toggles) = 1

\* C21 witness of the silent exclusion: a variable of no supported kind that is
\* not toggle-coverable was passed over
C21_WitnessExcluded ==
    /\ ev.kind = "VisitVar"
    /\ ev.considered
    /\ ev.disablep # ""
    /\ ev.node.dtypep = OtherDType
    /\ pc = "run"

\* the innermost module the visit is inside is the wrapper top module
InTop ==
    LET mods == SelectSeq(stack, LAMBDA f : f.kind = "Module")
    IN mods # <<>> /\ mods[Len(mods)].node.isTop

\* C22: m_inModOff is true exactly while the innermost module being visited is
\* the wrapper top module, whatever scopes (procedures, branches, case arms)
\* were entered inside it, and is therefore on return from a module what it was
\* on entry; no declaration on the line or branch page and no toggle is created
\* in the wrapper top module.
C22_ModuleSuppressed ==
    /\ pc = "run" => (m_state.m_inModOff <=> InTop)
    /\ ev.kind = "ExitModule" => m_state.m_inModOff = ev.entry.m_inModOff
    /\ "incs" \in DOMAIN ev =>
          \A i \in OnPage(ev.incs, "v_line") \cup OnPage(ev.incs, "v_branch") :
              ~ev.incs[i].inc.declp.modp.isTop /\ ~InTop
    /\ (ev.kind = "VisitVar" /\ InTop) => (ev.toggles = <<>> /\ ev.chgVars = <<>>)

\* C22 witness: a procedure of the wrapper top module whose scope is on, in a
\* design compiled with line coverage, returned without its block increment
C22_Witness ==
    /\ ev.kind = "ExitProcedure"
    /\ InTop
    /\ opt.coverageLine
    /\ ev.exit.m_on
    /\ ev.exit.m_inModOff
    /\ ev.node.fl.coverageOn
    /\ ev.incs = <<>>

\* C22 witness of the nesting: a variable of a class nested in the wrapper top
\* module is instrumented
C22_WitnessNested ==
    /\ ev.kind = "VisitVar"
    /\ Len(SelectSeq(stack, LAMBDA f : f.kind = "Module")) = 2
    /\ stack[2].node.isTop
    /\ ev.toggles # <<>>

\* C23: a conditional without else-branch that is no link of an else-if chain
\* and whose then-scope still has line coverage active has an else-scope with
\* the handle allocated last, enabled, established by the conditional; it gets
\* branch coverage: "if"/offset 0 at the end of the then-branch and
\* "else"/offset 1, with an empty line-range string, as the only node of the
\* else-branch.
C23_AbsentElse ==
    (/\ ev.kind = "ExitIf"
     /\ ev.node.elseShape = "none"
     /\ PlainIf(ev)
     /\ lineCoverageOn(ev.ifState, ev.node)) =>
        /\ ev.elseState.m_on
        /\ ev.elseState.m_handle = m_nextHandle
        /\ ev.elseState.m_handle > ev.ifState.m_handle
        /\ ev.elseState.m_nodep = ev.node
        /\ ev.kept.elses = 0
        /\ Len(ev.incs) = 2
        /\ IsPoint(ev.incs[1], ev.kept, "thens", "v_branch", "if", 0)
        /\ IsPoint(ev.incs[2], ev.kept, "elses", "v_branch", "else", 1)
        /\ ev.incs[2].pos = 1
        /\ ev.incs[2].inc.declp.linescov = <<>>

\* C23 witness: an if with a statement and no else got its two branch increments
C23_Witness ==
    /\ ev.kind = "ExitIf"
    /\ ev.node.elseShape = "none"
    /\ PlainIf(ev)
    /\ ev.kept.thens >= 1
    /\ Len(ev.incs) = 2
    /\ ev.incs[2].inc.declp.linescov = <<>>
    /\ ev.incs[1].inc.declp.linescov # <<>>

\* the scope the handler was called in had been disabled by a $stop or a
\* scope-off pragma
CalledDisabled == ~ev.entry.m_on /\ ev.entry.m_handle \in offHandles

C24_WitnessSkipped ==
    /\ ev.kind = "SkipIf"
    /\ CalledDisabled
    /\ ev.below # {}

====
